---------------------------- MODULE Spec2Model ----------------------------
(***************************************************************************)
(* NRD (NVIDIA Real-time Denoiser) and its ray-tracing sample.             *)
(*                                                                         *)
(* Two state machines share this module:                                   *)
(*   SpecNrd     the denoiser behind the public API of NRD.h, with the     *)
(*               pass graph declared by Add_ReblurDiffuseSpecularOcclusion *)
(*   SpecSample  Sample::RenderFrame of 09_RayTracing_NRD.cpp: frame       *)
(*               contexts, device semaphores and texture-state tracking    *)
(***************************************************************************)
EXTENDS Integers, Sequences, FiniteSets, TLC

VARIABLES
    \* ---- denoiser (NRD.h) ----
    alive,            \* the denoiser exists (created, not yet destroyed)
    included,         \* methods requested at CreateDenoiser
    settings,         \* denoiserData.settings, per method
    swapped,          \* ping-pong parity: TRUE when the pairs are exchanged
    nrdFrame,         \* number of GetComputeDispatches calls so far
    dispatches,       \* list returned by the last GetComputeDispatches
    prevDispatches,   \* list returned by the call before that, kept while sameInputs holds
    lastCommon,       \* CommonSettings of the last GetComputeDispatches ({} before the first)
    touched,          \* SetMethodSettings was called since the last GetComputeDispatches
    sameInputs,       \* the last two GetComputeDispatches had equal CommonSettings (frame index
                      \* aside) and no SetMethodSettings between them
    pingPongLog,      \* per dispatched frame: the tracking halves Temporal accumulation read and wrote
    lastResult,       \* Result of the last SetMethodSettings
    lastCall,         \* the last API call and its arguments
    requested,        \* per method: {settings of the last successful SetMethodSettings}, {} if none
    denoiserDesc,     \* {value returned by the last GetDenoiserDesc}, {} if none
    \* ---- sample (09_RayTracing_NRD.cpp) ----
    pc,               \* position of the CPU inside RenderFrame
    frameIndex,       \* argument of the current RenderFrame
    m_TextureStates,  \* Texture -> last recorded (nextAccess, nextLayout)
    deviceSemaphore,  \* per frame context: TRUE when signalled
    gpuQueue,         \* frame contexts submitted and not yet completed, in order
    lastBuild,        \* << record of the last BuildOptimizedTransitions call of this frame >>
    recording,        \* { frame context whose allocator, buffers and regions the CPU is rewriting }
    temporalLog,      \* per rendered frame: what the temporal pass bound and which barriers it asked for
    dispatchLog,      \* the dispatches and the unconditional barriers RenderFrame has recorded
                      \* for the current frame, in order
    \* ---- sample settings and history reset ----
    m_Settings,       \* struct Settings
    m_PrevSettings,   \* m_Settings as captured at the start of PrepareFrame
    m_IsActive,       \* the render loop is active (set by the application framework)
    m_PrevIsActive,   \* m_IsActive as seen by the previous RenderFrame
    prepared,         \* PrepareFrame has run and RenderFrame of the same frame has not yet
    pushed,           \* { what the last RenderFrame pushed to the diffuse and specular methods }
    rayTracing,       \* { the raygen permutation and the global constants the last RenderFrame
                      \*   traced its rays with }
    nrdCalls,         \* the calls the last RenderFrame made on m_NRD, in order
    \* ---- top-level acceleration structure ----
    instances,        \* m_Scene.instances, each with its material
    m_Camera,         \* the camera data (global position)
    tlasData,         \* the nri::GeometryObjectInstance entries written by the last build
    instanceData,     \* the InstanceData entries written by the last build
    m_HasTransparentObjects,
    gTransparent,     \* GlobalConstantBufferData::gTransparent as last written, 1 or 0
    tlasPc,           \* position of RenderFrame around the build: "UpdateConstantBuffer",
                      \* "TLAS" or "Raytracing"
    \* ---- TESTS panel ----
    testsFile,        \* tests.bin: the sequence of records, each Settings and camera data
    itemNum,          \* static itemNum
    reloadNeeded,     \* static reloadNeeded
    lastSelected,     \* static lastSelected
    timeStamp,        \* m_Timer.GetTimeStamp() of the current frame
    testsLog,         \* what the last frame's click did, and what was active when Add was pressed
    \* ---- LoadScene ----
    scenePc,          \* "Initialize", "dialog" (a file-open prompt is up), "loaded" or "aborted"
    automated,        \* IsAutomated()
    m_SceneFile,      \* the scene file path, a string of characters
    isLoaded,         \* the local isLoaded of LoadScene
    m_Scene,          \* the user-selected scene files that have been loaded, in order
    sceneLog,         \* the outcome of the last load or prompt
    \* ---- GPU objects, shader reload and shutdown ----
    objects,          \* the kind of every GPU object ever created, by handle
    members,          \* the handles the members of Sample hold
    destroyLog,       \* the WaitIdle, Destroy and Free calls made so far, in order
    pipelineLayoutOf, \* per pipeline ever created, by handle: the pipelineLayout of its desc
    shutdownPc        \* the number of calls ~Sample has made; 0 while the sample runs

nrdVars == << alive, included, settings, swapped, nrdFrame, dispatches, prevDispatches,
              lastCommon, touched, sameInputs, pingPongLog, lastResult, lastCall, requested,
              denoiserDesc >>
sampleVars == << pc, frameIndex, m_TextureStates, deviceSemaphore, gpuQueue,
                 lastBuild, recording, temporalLog, dispatchLog >>
historyVars == << m_PrevSettings, m_IsActive, m_PrevIsActive, prepared, pushed, rayTracing,
                 nrdCalls >>
tlasVars == << instances, m_Camera, tlasData, instanceData, m_HasTransparentObjects,
              gTransparent, tlasPc >>
testsVars == << testsFile, itemNum, reloadNeeded, lastSelected, timeStamp, testsLog >>
sceneVars == << scenePc, automated, m_SceneFile, isLoaded, m_Scene, sceneLog >>
shutdownVars == << objects, members, destroyLog, pipelineLayoutOf, shutdownPc >>
appVars == << m_Settings, historyVars, tlasVars, testsVars, sceneVars, shutdownVars >>
vars == << nrdVars, sampleVars, appVars >>

(***************************************************************************)
(* Bounds                                                                  *)
(***************************************************************************)
MaxNrdFrames == 3
MaxFrames == 3

(***************************************************************************)
(* Resources of the REBLUR diffuse+specular occlusion method               *)
(***************************************************************************)
NONE == "NONE"

ResourceType ==
    { "IN_MV", "IN_NORMAL_ROUGHNESS", "IN_VIEWZ", "IN_DIFF_HITDIST", "IN_SPEC_HITDIST",
      "IN_DISOCCLUSION_THRESHOLD_MIX", "IN_DIFF_CONFIDENCE", "IN_SPEC_CONFIDENCE",
      "OUT_DIFF_HITDIST", "OUT_SPEC_HITDIST", "OUT_VALIDATION" }

Permanent ==
    << "Permanent::PREV_VIEWZ", "Permanent::PREV_NORMAL_ROUGHNESS", "Permanent::PREV_INTERNAL_DATA",
       "Permanent::DIFF_FAST_HISTORY", "Permanent::SPEC_FAST_HISTORY",
       "Permanent::SPEC_HITDIST_FOR_TRACKING_PING", "Permanent::SPEC_HITDIST_FOR_TRACKING_PONG" >>

Transient ==
    << "Transient::DATA1", "Transient::DIFF_TMP1", "Transient::DIFF_TMP2", "Transient::DIFF_FAST_HISTORY",
       "Transient::SPEC_TMP1", "Transient::SPEC_TMP2", "Transient::SPEC_FAST_HISTORY", "Transient::TILES" >>

Range(s) == { s[i] : i \in DOMAIN s }

PermanentSlots == Range(Permanent)
TransientSlots == Range(Transient)

PermanentPool ==
    << [format |-> "REBLUR_FORMAT_PREV_VIEWZ", downsampleFactor |-> 1],
       [format |-> "REBLUR_FORMAT_PREV_NORMAL_ROUGHNESS", downsampleFactor |-> 1],
       [format |-> "REBLUR_FORMAT_PREV_INTERNAL_DATA", downsampleFactor |-> 1],
       [format |-> "REBLUR_FORMAT_OCCLUSION_FAST_HISTORY", downsampleFactor |-> 1],
       [format |-> "REBLUR_FORMAT_OCCLUSION_FAST_HISTORY", downsampleFactor |-> 1],
       [format |-> "REBLUR_FORMAT_HITDIST_FOR_TRACKING", downsampleFactor |-> 1],
       [format |-> "REBLUR_FORMAT_HITDIST_FOR_TRACKING", downsampleFactor |-> 1] >>

\* variant: the tile texture is not added to the transient pool
TransientPool_NoTiles ==
    << [format |-> "RG8_UNORM", downsampleFactor |-> 1],
       [format |-> "REBLUR_FORMAT_OCCLUSION", downsampleFactor |-> 1],
       [format |-> "REBLUR_FORMAT_OCCLUSION", downsampleFactor |-> 1],
       [format |-> "REBLUR_FORMAT_OCCLUSION_FAST_HISTORY", downsampleFactor |-> 1],
       [format |-> "REBLUR_FORMAT_OCCLUSION", downsampleFactor |-> 1],
       [format |-> "REBLUR_FORMAT_OCCLUSION", downsampleFactor |-> 1],
       [format |-> "REBLUR_FORMAT_OCCLUSION_FAST_HISTORY", downsampleFactor |-> 1] >>

TransientPool ==
    << [format |-> "RG8_UNORM", downsampleFactor |-> 1],
       [format |-> "REBLUR_FORMAT_OCCLUSION", downsampleFactor |-> 1],
       [format |-> "REBLUR_FORMAT_OCCLUSION", downsampleFactor |-> 1],
       [format |-> "REBLUR_FORMAT_OCCLUSION_FAST_HISTORY", downsampleFactor |-> 1],
       [format |-> "REBLUR_FORMAT_OCCLUSION", downsampleFactor |-> 1],
       [format |-> "REBLUR_FORMAT_OCCLUSION", downsampleFactor |-> 1],
       [format |-> "REBLUR_FORMAT_OCCLUSION_FAST_HISTORY", downsampleFactor |-> 1],
       [format |-> "R8_UNORM", downsampleFactor |-> 16] >>

REBLUR_DUMMY == "REBLUR_DUMMY"

DIFF_TEMP1 == "Transient::DIFF_TMP1"
DIFF_TEMP2 == "Transient::DIFF_TMP2"
SPEC_TEMP1 == "Transient::SPEC_TMP1"
SPEC_TEMP2 == "Transient::SPEC_TMP2"

REBLUR_OCCLUSION_HITDIST_RECONSTRUCTION_PERMUTATION_NUM == 2
REBLUR_OCCLUSION_TEMPORAL_ACCUMULATION_PERMUTATION_NUM == 8

\* PushInput( indexInPool ) and PushInput( indexInPool, indexToSwapWith ); PushOutput alike
Res(indexInPool) == [indexInPool |-> indexInPool, indexToSwapWith |-> NONE]
ResSwap(indexInPool, indexToSwapWith) == [indexInPool |-> indexInPool, indexToSwapWith |-> indexToSwapWith]

\* variant: the flag bits are read in the opposite order
Bit_Reversed(i, n) == ((i \div (2 ^ (2 - n))) % 2) # 0

\* ( i >> n ) & 0x1 != 0
Bit(i, n) == ((i \div (2 ^ n)) % 2) # 0

PushPass(name, permutation, inputs, outputs, shaders) ==
    [name |-> name, permutation |-> permutation, inputs |-> inputs, outputs |-> outputs,
     shaders |-> shaders]

ClassifyTiles ==
    PushPass("Classify tiles", 0,
        << Res("IN_VIEWZ") >>,
        << Res("Transient::TILES") >>,
        << "REBLUR_ClassifyTiles" >>)

\* variant: the reconstruction writes the second pair of temporaries
HitDistReconstruction_Tmp2(i) ==
    PushPass("Hit distance reconstruction", i,
        << Res("Transient::TILES"), Res("IN_NORMAL_ROUGHNESS"), Res("IN_VIEWZ"),
           Res("IN_DIFF_HITDIST"), Res("IN_SPEC_HITDIST") >>,
        << Res(DIFF_TEMP2), Res(SPEC_TEMP2) >>,
        IF Bit(i, 0)
        THEN << "REBLUR_DiffuseSpecularOcclusion_HitDistReconstruction_5x5",
                "REBLUR_Perf_DiffuseSpecularOcclusion_HitDistReconstruction_5x5" >>
        ELSE << "REBLUR_DiffuseSpecularOcclusion_HitDistReconstruction",
                "REBLUR_Perf_DiffuseSpecularOcclusion_HitDistReconstruction" >>)

HitDistReconstruction(i) ==
    LET is5x5 == Bit(i, 0) IN
    PushPass("Hit distance reconstruction", i,
        << Res("Transient::TILES"), Res("IN_NORMAL_ROUGHNESS"), Res("IN_VIEWZ"),
           Res("IN_DIFF_HITDIST"), Res("IN_SPEC_HITDIST") >>,
        << Res(DIFF_TEMP1), Res(SPEC_TEMP1) >>,
        IF is5x5
        THEN << "REBLUR_DiffuseSpecularOcclusion_HitDistReconstruction_5x5",
                "REBLUR_Perf_DiffuseSpecularOcclusion_HitDistReconstruction_5x5" >>
        ELSE << "REBLUR_DiffuseSpecularOcclusion_HitDistReconstruction",
                "REBLUR_Perf_DiffuseSpecularOcclusion_HitDistReconstruction" >>)

\* variant: the tracking output is declared with the halves of the tracking input
TemporalAccumulation_SameHalf(i) ==
    PushPass("Temporal accumulation", i,
        << Res("Transient::TILES"), Res("IN_NORMAL_ROUGHNESS"), Res("IN_VIEWZ"), Res("IN_MV"),
           Res("Permanent::PREV_VIEWZ"), Res("Permanent::PREV_NORMAL_ROUGHNESS"),
           Res("Permanent::PREV_INTERNAL_DATA"),
           Res(IF Bit(i, 2) THEN "IN_DISOCCLUSION_THRESHOLD_MIX" ELSE REBLUR_DUMMY),
           Res(IF Bit(i, 1) THEN "IN_DIFF_CONFIDENCE" ELSE REBLUR_DUMMY),
           Res(IF Bit(i, 1) THEN "IN_SPEC_CONFIDENCE" ELSE REBLUR_DUMMY),
           Res(IF Bit(i, 0) THEN DIFF_TEMP1 ELSE "IN_DIFF_HITDIST"),
           Res(IF Bit(i, 0) THEN SPEC_TEMP1 ELSE "IN_SPEC_HITDIST"),
           Res("OUT_DIFF_HITDIST"), Res("OUT_SPEC_HITDIST"),
           Res("Permanent::DIFF_FAST_HISTORY"), Res("Permanent::SPEC_FAST_HISTORY"),
           ResSwap("Permanent::SPEC_HITDIST_FOR_TRACKING_PING", "Permanent::SPEC_HITDIST_FOR_TRACKING_PONG") >>,
        << Res(DIFF_TEMP2), Res(SPEC_TEMP2),
           Res("Transient::DIFF_FAST_HISTORY"), Res("Transient::SPEC_FAST_HISTORY"),
           ResSwap("Permanent::SPEC_HITDIST_FOR_TRACKING_PING", "Permanent::SPEC_HITDIST_FOR_TRACKING_PONG"),
           Res("Transient::DATA1") >>,
        << "REBLUR_DiffuseSpecularOcclusion_TemporalAccumulation",
           "REBLUR_Perf_DiffuseSpecularOcclusion_TemporalAccumulation" >>)

TemporalAccumulation(i) ==
    LET hasDisocclusionThresholdMix == Bit(i, 2)
        hasConfidenceInputs == Bit(i, 1)
        isAfterReconstruction == Bit(i, 0)
    IN
    PushPass("Temporal accumulation", i,
        << Res("Transient::TILES"),
           Res("IN_NORMAL_ROUGHNESS"),
           Res("IN_VIEWZ"),
           Res("IN_MV"),
           Res("Permanent::PREV_VIEWZ"),
           Res("Permanent::PREV_NORMAL_ROUGHNESS"),
           Res("Permanent::PREV_INTERNAL_DATA"),
           Res(IF hasDisocclusionThresholdMix THEN "IN_DISOCCLUSION_THRESHOLD_MIX" ELSE REBLUR_DUMMY),
           Res(IF hasConfidenceInputs THEN "IN_DIFF_CONFIDENCE" ELSE REBLUR_DUMMY),
           Res(IF hasConfidenceInputs THEN "IN_SPEC_CONFIDENCE" ELSE REBLUR_DUMMY),
           Res(IF isAfterReconstruction THEN DIFF_TEMP1 ELSE "IN_DIFF_HITDIST"),
           Res(IF isAfterReconstruction THEN SPEC_TEMP1 ELSE "IN_SPEC_HITDIST"),
           Res("OUT_DIFF_HITDIST"),
           Res("OUT_SPEC_HITDIST"),
           Res("Permanent::DIFF_FAST_HISTORY"),
           Res("Permanent::SPEC_FAST_HISTORY"),
           ResSwap("Permanent::SPEC_HITDIST_FOR_TRACKING_PING", "Permanent::SPEC_HITDIST_FOR_TRACKING_PONG") >>,
        << Res(DIFF_TEMP2),
           Res(SPEC_TEMP2),
           Res("Transient::DIFF_FAST_HISTORY"),
           Res("Transient::SPEC_FAST_HISTORY"),
           ResSwap("Permanent::SPEC_HITDIST_FOR_TRACKING_PONG", "Permanent::SPEC_HITDIST_FOR_TRACKING_PING"),
           Res("Transient::DATA1") >>,
        << "REBLUR_DiffuseSpecularOcclusion_TemporalAccumulation",
           "REBLUR_Perf_DiffuseSpecularOcclusion_TemporalAccumulation" >>)

\* variant: History fix repairs the temporaries in place
HistoryFix_InPlace ==
    PushPass("History fix", 0,
        << Res("Transient::TILES"), Res("IN_NORMAL_ROUGHNESS"), Res("Transient::DATA1"), Res("IN_VIEWZ"),
           Res(DIFF_TEMP2), Res(SPEC_TEMP2),
           Res("Transient::DIFF_FAST_HISTORY"), Res("Transient::SPEC_FAST_HISTORY") >>,
        << Res(DIFF_TEMP2), Res(SPEC_TEMP2),
           Res("Permanent::DIFF_FAST_HISTORY"), Res("Permanent::SPEC_FAST_HISTORY") >>,
        << "REBLUR_DiffuseSpecularOcclusion_HistoryFix", "REBLUR_Perf_DiffuseSpecularOcclusion_HistoryFix" >>)

HistoryFix ==
    PushPass("History fix", 0,
        << Res("Transient::TILES"), Res("IN_NORMAL_ROUGHNESS"), Res("Transient::DATA1"), Res("IN_VIEWZ"),
           Res(DIFF_TEMP2), Res(SPEC_TEMP2),
           Res("Transient::DIFF_FAST_HISTORY"), Res("Transient::SPEC_FAST_HISTORY") >>,
        << Res(DIFF_TEMP1), Res(SPEC_TEMP1),
           Res("Permanent::DIFF_FAST_HISTORY"), Res("Permanent::SPEC_FAST_HISTORY") >>,
        << "REBLUR_DiffuseSpecularOcclusion_HistoryFix", "REBLUR_Perf_DiffuseSpecularOcclusion_HistoryFix" >>)

\* variant: Blur does not refresh the previous-depth slot
Blur_NoPrevViewZ ==
    PushPass("Blur", 0,
        << Res("Transient::TILES"), Res("IN_NORMAL_ROUGHNESS"), Res("Transient::DATA1"),
           Res(DIFF_TEMP1), Res(SPEC_TEMP1), Res("IN_VIEWZ") >>,
        << Res(DIFF_TEMP2), Res(SPEC_TEMP2) >>,
        << "REBLUR_DiffuseSpecularOcclusion_Blur", "REBLUR_Perf_DiffuseSpecularOcclusion_Blur" >>)

Blur ==
    PushPass("Blur", 0,
        << Res("Transient::TILES"), Res("IN_NORMAL_ROUGHNESS"), Res("Transient::DATA1"),
           Res(DIFF_TEMP1), Res(SPEC_TEMP1), Res("IN_VIEWZ") >>,
        << Res(DIFF_TEMP2), Res(SPEC_TEMP2), Res("Permanent::PREV_VIEWZ") >>,
        << "REBLUR_DiffuseSpecularOcclusion_Blur", "REBLUR_Perf_DiffuseSpecularOcclusion_Blur" >>)

PostBlur ==
    PushPass("Post-blur", 0,
        << Res("Transient::TILES"), Res("IN_NORMAL_ROUGHNESS"), Res("Transient::DATA1"),
           Res(DIFF_TEMP2), Res(SPEC_TEMP2), Res("Permanent::PREV_VIEWZ") >>,
        << Res("Permanent::PREV_NORMAL_ROUGHNESS"), Res("OUT_DIFF_HITDIST"), Res("OUT_SPEC_HITDIST"),
           Res("Permanent::PREV_INTERNAL_DATA") >>,
        << "REBLUR_DiffuseSpecularOcclusion_PostBlur_NoTemporalStabilization",
           "REBLUR_Perf_DiffuseSpecularOcclusion_PostBlur_NoTemporalStabilization" >>)

SplitScreen ==
    PushPass("Split screen", 0,
        << Res("IN_VIEWZ"), Res("IN_DIFF_HITDIST"), Res("IN_SPEC_HITDIST") >>,
        << Res("OUT_DIFF_HITDIST"), Res("OUT_SPEC_HITDIST") >>,
        << "REBLUR_DiffuseSpecular_SplitScreen" >>)

\* REBLUR_ADD_VALIDATION_DISPATCH( data1, diff, spec ): the macro's three arguments are
\* its inputs; its body draws the diagnostic overlay
Validation ==
    PushPass("Validation", 0,
        << Res("Transient::DATA1"), Res("IN_DIFF_HITDIST"), Res("IN_SPEC_HITDIST") >>,
        << Res("OUT_VALIDATION") >>,
        << "REBLUR_Validation" >>)

\* the two permutation loops
HitDistReconstructionPasses ==
    [k \in 1..REBLUR_OCCLUSION_HITDIST_RECONSTRUCTION_PERMUTATION_NUM |-> HitDistReconstruction(k - 1)]

TemporalAccumulationPasses ==
    [k \in 1..REBLUR_OCCLUSION_TEMPORAL_ACCUMULATION_PERMUTATION_NUM |-> TemporalAccumulation(k - 1)]

\* variant: Split screen is declared before Post-blur
Add_ReblurDiffuseSpecularOcclusion_SplitFirst ==
    << ClassifyTiles >> \o HitDistReconstructionPasses \o TemporalAccumulationPasses
        \o << HistoryFix, Blur, SplitScreen, PostBlur, Validation >>

\* the declared pass list, in the order of the PushPass calls
Add_ReblurDiffuseSpecularOcclusion ==
    << ClassifyTiles >> \o HitDistReconstructionPasses \o TemporalAccumulationPasses
        \o << HistoryFix, Blur, PostBlur, SplitScreen, Validation >>

(***************************************************************************)
(* Denoiser: creation, settings, per-frame dispatch list (NRD.h)           *)
(***************************************************************************)
REBLUR == "REBLUR_DIFFUSE_SPECULAR_OCCLUSION"
SIGMA == "SIGMA_SHADOW"

\* creation order of the methods
MethodOrder == << REBLUR, SIGMA >>
Methods == Range(MethodOrder)

HitDistanceReconstructionMode == { "OFF", "AREA_3X3", "AREA_5X5" }

\* ReblurSettings(): the built-in default
ReblurSettings == [hitDistanceReconstructionMode |-> "OFF"]
ReblurSettingsDomain == [hitDistanceReconstructionMode : HitDistanceReconstructionMode]

SigmaSettings == [lightSourceAngularDiameter |-> 0]
SigmaSettingsDomain == [lightSourceAngularDiameter : {0, 1}]

DefaultSettings(m) == IF m = REBLUR THEN ReblurSettings ELSE SigmaSettings
SettingsDomain(m) == IF m = REBLUR THEN ReblurSettingsDomain ELSE SigmaSettingsDomain

\* variant: the builder leaves the settings at a value other than the default
InstalledReblurSettings_NotDefault == [hitDistanceReconstructionMode |-> "AREA_3X3"]

\* denoiserData.settings.reblur = ReblurSettings();
InstalledReblurSettings == ReblurSettings

\* pass graph of a method as its builder declares it
Add_SigmaShadow ==
    << PushPass("Shadow", 0, << >>, << >>, << "SIGMA_Shadow" >>) >>

MethodPasses(m) == IF m = REBLUR THEN Add_ReblurDiffuseSpecularOcclusion ELSE Add_SigmaShadow

\* settings a method holds right after creation
InstalledSettings(m) == IF m = REBLUR THEN InstalledReblurSettings ELSE SigmaSettings

CommonSettingsDomain ==
    [isDisocclusionThresholdMixAvailable : BOOLEAN,
     isHistoryConfidenceAvailable : BOOLEAN,
     enableValidation : BOOLEAN]

\* the half of a ping-pong pair bound this frame
Resolve(res, swap) ==
    IF swap /\ res.indexToSwapWith # NONE THEN res.indexToSwapWith ELSE res.indexInPool

ResolveAll(list, swap) == [k \in DOMAIN list |-> Resolve(list[k], swap)]

BoolToNat(b) == IF b THEN 1 ELSE 0

\* whether a declared pass of the REBLUR method is dispatched this frame: one
\* permutation per permutation loop, chosen from the settings
ReblurSelected(p, s, common) ==
    LET reconstruct == s.hitDistanceReconstructionMode # "OFF"
        is5x5 == s.hitDistanceReconstructionMode = "AREA_5X5"
        taIndex == 4 * BoolToNat(common.isDisocclusionThresholdMixAvailable)
                   + 2 * BoolToNat(common.isHistoryConfidenceAvailable)
                   + BoolToNat(reconstruct)
    IN CASE p.name = "Hit distance reconstruction" -> reconstruct /\ p.permutation = BoolToNat(is5x5)
         [] p.name = "Temporal accumulation" -> p.permutation = taIndex
         [] p.name = "Validation" -> common.enableValidation
         [] OTHER -> TRUE

Selected(m, p, s, common) == IF m = REBLUR THEN ReblurSelected(p, s, common) ELSE TRUE

\* one DispatchDesc per selected pass, in declared order
MethodDispatches(m, s, common, swap, frame) ==
    LET passes == MethodPasses(m)
        Test(k) == Selected(m, passes[k], s, common)
        sel == SelectSeq([k \in DOMAIN passes |-> k], Test)
    IN [j \in DOMAIN sel |->
          LET p == passes[sel[j]] IN
          [method |-> m,
           passIndex |-> sel[j],
           name |-> p.name,
           permutation |-> p.permutation,
           inputs |-> ResolveAll(p.inputs, swap),
           outputs |-> ResolveAll(p.outputs, swap),
           shaders |-> p.shaders,
           constants |-> [frameIndex |-> frame, settings |-> s]]]

RECURSIVE AllDispatches(_, _, _, _, _, _)
AllDispatches(k, incl, sets, common, swap, frame) ==
    IF k > Len(MethodOrder) THEN << >>
    ELSE (IF MethodOrder[k] \in incl
          THEN MethodDispatches(MethodOrder[k], sets[MethodOrder[k]], common, swap, frame)
          ELSE << >>)
         \o AllDispatches(k + 1, incl, sets, common, swap, frame)

\* pools, pipelines of the included methods
MethodDesc(m) ==
    [method |-> m,
     permanentPool |-> IF m = REBLUR THEN PermanentPool ELSE << >>,
     transientPool |-> IF m = REBLUR THEN TransientPool ELSE << >>,
     pipelines |-> UNION { Range(MethodPasses(m)[k].shaders) : k \in DOMAIN MethodPasses(m) }]

DenoiserDesc(incl) == { MethodDesc(m) : m \in incl }

SUCCESS == "SUCCESS"
FAILURE == "FAILURE"

\* variant: the method is not validated
SetMethodSettingsImpl_Unchecked(incl, sets, method, methodSettings) ==
    [result |-> SUCCESS,
     settings |-> IF method \in incl THEN [sets EXCEPT ![method] = methodSettings]
                  ELSE [m \in incl |-> DefaultSettings(m)]]

\* SetMethodSettings: the result and the settings table it leaves
SetMethodSettingsImpl(incl, sets, method, methodSettings) ==
    IF method \in incl
    THEN [result |-> SUCCESS, settings |-> [sets EXCEPT ![method] = methodSettings]]
    ELSE [result |-> FAILURE, settings |-> sets]

\* variant: the query advances the ping-pong parity
GetDenoiserDescImpl_Swapping(incl, sets, swap, frame) ==
    [desc |-> DenoiserDesc(incl), settings |-> sets, swapped |-> ~swap, nrdFrame |-> frame]

\* GetDenoiserDesc: the description returned and the denoiser state it leaves
GetDenoiserDescImpl(incl, sets, swap, frame) ==
    [desc |-> DenoiserDesc(incl), settings |-> sets, swapped |-> swap, nrdFrame |-> frame]

\* variant: the validation pass is dispatched on even frames only
GetComputeDispatchesImpl_ParityDependent(incl, sets, common, swap, frame) ==
    AllDispatches(1, incl, sets, [common EXCEPT !.enableValidation = @ /\ (frame % 2 = 0)],
                  swap, frame)

\* GetComputeDispatches: the list returned
GetComputeDispatchesImpl(incl, sets, common, swap, frame) ==
    AllDispatches(1, incl, sets, common, swap, frame)

\* the ping-pong pairs exchange their halves once per GetComputeDispatches
UpdatePingPong(swap) == ~swap

TrackingPair ==
    { "Permanent::SPEC_HITDIST_FOR_TRACKING_PING", "Permanent::SPEC_HITDIST_FOR_TRACKING_PONG" }

\* the tracking halves the Temporal accumulation dispatches of a list read and write
TrackingUse(list) ==
    LET ta == { k \in DOMAIN list : list[k].method = REBLUR /\ list[k].name = "Temporal accumulation" }
    IN [read |-> UNION { Range(list[k].inputs) \cap TrackingPair : k \in ta },
        write |-> UNION { Range(list[k].outputs) \cap TrackingPair : k \in ta }]

NrdInitWith(incl) ==
    /\ alive = TRUE
    /\ included = incl
    /\ settings = [m \in incl |-> InstalledSettings(m)]
    /\ swapped = FALSE
    /\ nrdFrame = 0
    /\ dispatches = << >>
    /\ prevDispatches = << >>
    /\ lastCommon = {}
    /\ touched = FALSE
    /\ sameInputs = FALSE
    /\ pingPongLog = << >>
    /\ lastResult = NONE
    /\ lastCall = [op |-> "CreateDenoiser"]
    /\ requested = [m \in Methods |-> {}]
    /\ denoiserDesc = {}

\* CreateDenoiser with any non-empty set of requested methods
NrdInit == \E incl \in (SUBSET Methods) \ {{}} : NrdInitWith(incl)

SetMethodSettings(method, methodSettings) ==
    LET r == SetMethodSettingsImpl(included, settings, method, methodSettings) IN
    /\ alive
    /\ settings' = r.settings
    /\ lastResult' = r.result
    /\ requested' = IF r.result = SUCCESS THEN [requested EXCEPT ![method] = {methodSettings}]
                    ELSE requested
    /\ touched' = TRUE
    /\ lastCall' = [op |-> "SetMethodSettings", method |-> method, settings |-> methodSettings]
    /\ UNCHANGED << alive, included, swapped, nrdFrame, dispatches, prevDispatches, lastCommon,
                    sameInputs, pingPongLog, denoiserDesc >>
    /\ UNCHANGED << sampleVars, appVars >>

GetComputeDispatches(commonSettings) ==
    /\ alive
    /\ nrdFrame < MaxNrdFrames
    /\ dispatches' = GetComputeDispatchesImpl(included, settings, commonSettings, swapped, nrdFrame)
    /\ prevDispatches' = IF ~touched /\ lastCommon = {commonSettings} THEN dispatches ELSE << >>
    /\ swapped' = UpdatePingPong(swapped)
    /\ nrdFrame' = nrdFrame + 1
    /\ sameInputs' = (~touched /\ lastCommon = {commonSettings})
    /\ lastCommon' = {commonSettings}
    /\ touched' = FALSE
    /\ pingPongLog' = IF REBLUR \in included THEN Append(pingPongLog, TrackingUse(dispatches'))
                      ELSE pingPongLog
    /\ lastCall' = [op |-> "GetComputeDispatches", common |-> commonSettings]
    /\ UNCHANGED << alive, included, settings, lastResult, requested, denoiserDesc >>
    /\ UNCHANGED << sampleVars, appVars >>

GetDenoiserDesc ==
    LET r == GetDenoiserDescImpl(included, settings, swapped, nrdFrame) IN
    /\ alive
    /\ denoiserDesc' = {r.desc}
    /\ settings' = r.settings
    /\ swapped' = r.swapped
    /\ nrdFrame' = r.nrdFrame
    /\ lastCall' = [op |-> "GetDenoiserDesc"]
    /\ UNCHANGED << alive, included, dispatches, prevDispatches, lastCommon, touched, sameInputs,
                    pingPongLog, lastResult, requested >>
    /\ UNCHANGED << sampleVars, appVars >>

\* DestroyDenoiser releases all internal bookkeeping
DestroyDenoiser ==
    /\ alive
    /\ alive' = FALSE
    /\ settings' = << >>
    /\ swapped' = FALSE
    /\ nrdFrame' = 0
    /\ dispatches' = << >>
    /\ prevDispatches' = << >>
    /\ lastCommon' = {}
    /\ touched' = FALSE
    /\ sameInputs' = FALSE
    /\ pingPongLog' = << >>
    /\ lastResult' = NONE
    /\ requested' = [m \in Methods |-> {}]
    /\ denoiserDesc' = {}
    /\ lastCall' = [op |-> "DestroyDenoiser"]
    /\ UNCHANGED included
    /\ UNCHANGED << sampleVars, appVars >>

NrdNext ==
    \/ \E method \in Methods : \E methodSettings \in SettingsDomain(method) :
          SetMethodSettings(method, methodSettings)
    \/ \E commonSettings \in CommonSettingsDomain : GetComputeDispatches(commonSettings)
    \/ GetDenoiserDesc
    \/ DestroyDenoiser

(***************************************************************************)
(* Sample: texture states, frame contexts, RenderFrame                     *)
(***************************************************************************)
BUFFERED_FRAME_MAX_NUM == 2

FrameContexts == 0..(BUFFERED_FRAME_MAX_NUM - 1)

\* enum class Texture (the entries that own a tracked state)
Texture ==
    << "IntegrateBRDF", "ViewZ", "DirectLighting", "TransparentLighting", "ObjectMotion",
       "Normal_Roughness", "BaseColor_Metalness", "Shadow", "DiffHit", "SpecHit",
       "Unfiltered_Shadow", "Unfiltered_DiffA", "Unfiltered_DiffB", "Unfiltered_SpecHit",
       "Composition", "CompositionHdr", "TaaHistory", "TaaHistoryPrev", "Final" >>

Textures == Range(Texture)

SHADER_RESOURCE == "SHADER_RESOURCE"
SHADER_RESOURCE_STORAGE == "SHADER_RESOURCE_STORAGE"
COPY_SOURCE == "COPY_SOURCE"
GENERAL == "GENERAL"
UNKNOWN == "UNKNOWN"

\* An entry of m_TextureStates is kept as its (nextAccess, nextLayout) pair: the
\* prevAccess and prevLayout fields of an entry are only ever overwritten from that
\* pair, they are never read back.
Recorded(barrier) == [nextAccess |-> barrier.nextAccess, nextLayout |-> barrier.nextLayout]

\* nri::TextureTransition(texture, state, layout) in CreateTexture: a fresh entry
NewTextureState(state) ==
    Recorded([prevAccess |-> UNKNOWN, nextAccess |-> state, prevLayout |-> UNKNOWN,
              nextLayout |-> IF state = SHADER_RESOURCE THEN SHADER_RESOURCE ELSE GENERAL])

\* the state argument of each CreateTexture call of CreateResources
CreateResources ==
    [t \in Textures |->
        NewTextureState(
            CASE t \in { "IntegrateBRDF", "CompositionHdr", "TaaHistoryPrev" } -> SHADER_RESOURCE_STORAGE
              [] t = "Final" -> COPY_SOURCE
              [] OTHER -> SHADER_RESOURCE)]

\* nri::TextureTransition(prevState, nextAccess, nextLayout): the barrier from the
\* entry's state to the requested one; the entry itself moves to the requested state
TextureTransition(prevState, nextAccess, nextLayout) ==
    [prevAccess |-> prevState.nextAccess, nextAccess |-> nextAccess,
     prevLayout |-> prevState.nextLayout, nextLayout |-> nextLayout]

TextureState(texture, nextAccess, nextLayout) ==
    [texture |-> texture, nextAccess |-> nextAccess, nextLayout |-> nextLayout]

\* variant: a transition is emitted only when both the access and the layout differ
BuildStep_BothDiffer(acc, state, transitionMaxNum) ==
    LET transition == acc.textureStates[state.texture] IN
    IF transition.nextAccess # state.nextAccess /\ transition.nextLayout # state.nextLayout
    THEN LET t == TextureTransition(transition, state.nextAccess, state.nextLayout) IN
         [n |-> acc.n + 1,
          transitions |-> Append(acc.transitions, [texture |-> state.texture, barrier |-> t]),
          textureStates |-> [acc.textureStates EXCEPT ![state.texture] = Recorded(t)],
          assertFailed |-> acc.assertFailed \/ ~(acc.n < transitionMaxNum)]
    ELSE acc

\* one iteration of the loop of BuildOptimizedTransitions over states[i]
BuildStep(acc, state, transitionMaxNum) ==
    LET transition == acc.textureStates[state.texture] IN
    IF transition.nextAccess # state.nextAccess \/ transition.nextLayout # state.nextLayout
    THEN LET t == TextureTransition(transition, state.nextAccess, state.nextLayout) IN
         [n |-> acc.n + 1,
          transitions |-> Append(acc.transitions, [texture |-> state.texture, barrier |-> t]),
          textureStates |-> [acc.textureStates EXCEPT ![state.texture] = Recorded(t)],
          assertFailed |-> acc.assertFailed \/ ~(acc.n < transitionMaxNum)]
    ELSE acc

RECURSIVE BuildLoop(_, _, _, _)
BuildLoop(acc, states, i, transitionMaxNum) ==
    IF i > Len(states) THEN acc
    ELSE BuildLoop(BuildStep(acc, states[i], transitionMaxNum), states, i + 1, transitionMaxNum)

\* Sample::BuildOptimizedTransitions: n, transitions[0..n-1] and the updated m_TextureStates
BuildOptimizedTransitions(textureStates, states, transitionMaxNum) ==
    BuildLoop([n |-> 0, transitions |-> << >>, textureStates |-> textureStates,
               assertFailed |-> FALSE],
              states, 1, transitionMaxNum)

\* nri::TextureTransitionBarrierDesc optimizedTransitions[32]
OptimizedTransitionsNum == 32

\* a list of direct nri::TextureTransition( GetState(texture), access, layout ) calls
RECURSIVE ApplyTransitions(_, _, _)
ApplyTransitions(textureStates, states, i) ==
    IF i > Len(states) THEN textureStates
    ELSE ApplyTransitions(
            [textureStates EXCEPT ![states[i].texture] =
                Recorded(TextureTransition(@, states[i].nextAccess, states[i].nextLayout))],
            states, i + 1)

IntegrateBRDFTransitions ==
    << TextureState("IntegrateBRDF", SHADER_RESOURCE, SHADER_RESOURCE) >>

\* variant: the barrier before the ray tracing dispatch leaves out its input
RaytracingTransitions_NoInput ==
    << TextureState("DirectLighting", SHADER_RESOURCE_STORAGE, GENERAL),
       TextureState("TransparentLighting", SHADER_RESOURCE_STORAGE, GENERAL),
       TextureState("ObjectMotion", SHADER_RESOURCE_STORAGE, GENERAL),
       TextureState("ViewZ", SHADER_RESOURCE_STORAGE, GENERAL),
       TextureState("Normal_Roughness", SHADER_RESOURCE_STORAGE, GENERAL),
       TextureState("BaseColor_Metalness", SHADER_RESOURCE_STORAGE, GENERAL),
       TextureState("Unfiltered_Shadow", SHADER_RESOURCE_STORAGE, GENERAL),
       TextureState("Unfiltered_DiffA", SHADER_RESOURCE_STORAGE, GENERAL),
       TextureState("Unfiltered_DiffB", SHADER_RESOURCE_STORAGE, GENERAL),
       TextureState("Unfiltered_SpecHit", SHADER_RESOURCE_STORAGE, GENERAL) >>

RaytracingTransitions ==
    << TextureState("CompositionHdr", SHADER_RESOURCE, SHADER_RESOURCE),
       TextureState("DirectLighting", SHADER_RESOURCE_STORAGE, GENERAL),
       TextureState("TransparentLighting", SHADER_RESOURCE_STORAGE, GENERAL),
       TextureState("ObjectMotion", SHADER_RESOURCE_STORAGE, GENERAL),
       TextureState("ViewZ", SHADER_RESOURCE_STORAGE, GENERAL),
       TextureState("Normal_Roughness", SHADER_RESOURCE_STORAGE, GENERAL),
       TextureState("BaseColor_Metalness", SHADER_RESOURCE_STORAGE, GENERAL),
       TextureState("Unfiltered_Shadow", SHADER_RESOURCE_STORAGE, GENERAL),
       TextureState("Unfiltered_DiffA", SHADER_RESOURCE_STORAGE, GENERAL),
       TextureState("Unfiltered_DiffB", SHADER_RESOURCE_STORAGE, GENERAL),
       TextureState("Unfiltered_SpecHit", SHADER_RESOURCE_STORAGE, GENERAL) >>

CompositionTransitions ==
    << TextureState("DirectLighting", SHADER_RESOURCE, SHADER_RESOURCE),
       TextureState("TransparentLighting", SHADER_RESOURCE, SHADER_RESOURCE),
       TextureState("Normal_Roughness", SHADER_RESOURCE, SHADER_RESOURCE),
       TextureState("BaseColor_Metalness", SHADER_RESOURCE, SHADER_RESOURCE),
       TextureState("Shadow", SHADER_RESOURCE, SHADER_RESOURCE),
       TextureState("DiffHit", SHADER_RESOURCE, SHADER_RESOURCE),
       TextureState("SpecHit", SHADER_RESOURCE, SHADER_RESOURCE),
       TextureState("Unfiltered_Shadow", SHADER_RESOURCE, SHADER_RESOURCE),
       TextureState("Unfiltered_DiffA", SHADER_RESOURCE, SHADER_RESOURCE),
       TextureState("Unfiltered_DiffB", SHADER_RESOURCE, SHADER_RESOURCE),
       TextureState("Unfiltered_SpecHit", SHADER_RESOURCE, SHADER_RESOURCE),
       TextureState("Composition", SHADER_RESOURCE_STORAGE, GENERAL),
       TextureState("CompositionHdr", SHADER_RESOURCE_STORAGE, GENERAL) >>

TemporalTransitions(isEven) ==
    << TextureState("ViewZ", SHADER_RESOURCE, SHADER_RESOURCE),
       TextureState("ObjectMotion", SHADER_RESOURCE, SHADER_RESOURCE),
       TextureState("Composition", SHADER_RESOURCE, SHADER_RESOURCE),
       TextureState(IF isEven THEN "TaaHistoryPrev" ELSE "TaaHistory", SHADER_RESOURCE, SHADER_RESOURCE),
       TextureState(IF isEven THEN "TaaHistory" ELSE "TaaHistoryPrev", SHADER_RESOURCE_STORAGE, GENERAL),
       TextureState("Final", SHADER_RESOURCE_STORAGE, GENERAL) >>

CopyTransitions ==
    << TextureState("Final", COPY_SOURCE, GENERAL) >>

\* NrdUserPool: the sample textures handed to the denoiser together with their state entries
NrdUserPool ==
    { "ObjectMotion", "Normal_Roughness", "ViewZ", "Unfiltered_Shadow", "Unfiltered_DiffA",
      "Unfiltered_DiffB", "Unfiltered_SpecHit", "Shadow", "DiffHit", "SpecHit" }

\* enum class DescriptorSet
DescriptorSet ==
    << "IntegrateBRDF0", "Raytracing2", "Raytracing1", "Composition1", "Temporal1a", "Temporal1b" >>

\* CreateDescriptorSets: the sets in the order they are pushed to m_DescriptorSets, each
\* with the textures its descriptors view (X_Texture and X_StorageTexture view texture X)
CreateDescriptorSets ==
    << [textures |-> << >>, storageTextures |-> << "IntegrateBRDF" >>],
       [textures |-> << "MaterialTextures" >>, storageTextures |-> << >>],
       [textures |-> << "ScramblingRanking1spp", "ScramblingRanking32spp", "SobolSequence",
                        "IntegrateBRDF", "CompositionHdr" >>,
        storageTextures |-> << "DirectLighting", "TransparentLighting", "ObjectMotion", "ViewZ",
                               "Normal_Roughness", "BaseColor_Metalness", "Unfiltered_Shadow",
                               "Unfiltered_DiffA", "Unfiltered_DiffB", "Unfiltered_SpecHit" >>],
       [textures |-> << "DirectLighting", "TransparentLighting", "Normal_Roughness",
                        "BaseColor_Metalness", "Shadow", "DiffHit", "SpecHit", "Unfiltered_Shadow",
                        "Unfiltered_DiffA", "Unfiltered_DiffB", "Unfiltered_SpecHit", "IntegrateBRDF" >>,
        storageTextures |-> << "Composition", "CompositionHdr" >>],
       [textures |-> << "ViewZ", "ObjectMotion", "Composition", "TaaHistoryPrev" >>,
        storageTextures |-> << "TaaHistory", "Final" >>],
       [textures |-> << "ViewZ", "ObjectMotion", "Composition", "TaaHistory" >>,
        storageTextures |-> << "TaaHistoryPrev", "Final" >>] >>

\* Get(DescriptorSet index): m_DescriptorSets[(uint32_t)index]
GetDescriptorSet(index) ==
    CreateDescriptorSets[CHOOSE k \in DOMAIN DescriptorSet : DescriptorSet[k] = index]

\* variant: the temporal pass binds the same set on every frame
TemporalDescriptorSet_Fixed(isEven) == "Temporal1a"

\* Get(isEven ? DescriptorSet::Temporal1a : DescriptorSet::Temporal1b)
TemporalDescriptorSet(isEven) == IF isEven THEN "Temporal1a" ELSE "Temporal1b"

\* an array of nri::TextureTransition( GetState(texture), access, layout ) values: the
\* barriers handed to CmdPipelineBarrier without any test of the entry's state
DirectTransitions(textureStates, states) ==
    [i \in DOMAIN states |->
        [texture |-> states[i].texture,
         barrier |-> TextureTransition(ApplyTransitions(textureStates, SubSeq(states, 1, i - 1), 1)
                                           [states[i].texture],
                                       states[i].nextAccess, states[i].nextLayout)]]

\* NRI.CmdPipelineBarrier as recorded in the frame's command buffers
CmdPipelineBarrier(stage, transitions) ==
    [op |-> "Barrier", stage |-> stage, sets |-> << >>, states |-> << >>,
     transitions |-> transitions]

\* NRI.CmdDispatch / NRI.CmdDispatchRays with the descriptor sets bound at that point and
\* the state every texture had last been moved to
CmdDispatch(stage, sets, states) ==
    [op |-> "Dispatch", stage |-> stage, sets |-> sets, states |-> states,
     transitions |-> << >>]

\* frameIndex % BUFFERED_FRAME_MAX_NUM
BufferedFrameIndex(f) == f % BUFFERED_FRAME_MAX_NUM

SampleInit ==
    /\ pc = "Wait"
    /\ frameIndex = 0
    /\ m_TextureStates = CreateResources
    /\ deviceSemaphore = [c \in FrameContexts |-> TRUE]
    /\ gpuQueue = << >>
    /\ lastBuild = << >>
    /\ recording = {}
    /\ temporalLog = << >>
    /\ dispatchLog = << >>

\* variant: the context is reset and rewritten without waiting on its semaphore
RenderFrame_Begin_NoWait ==
    LET bufferedFrameIndex == BufferedFrameIndex(frameIndex) IN
    /\ pc = "Wait"
    /\ frameIndex < MaxFrames
    /\ deviceSemaphore' = [deviceSemaphore EXCEPT ![bufferedFrameIndex] = FALSE]
    /\ recording' = {bufferedFrameIndex}
    /\ pc' = "Main"
    /\ dispatchLog' = << >>
    /\ UNCHANGED << frameIndex, m_TextureStates, gpuQueue, lastBuild, temporalLog >>
    /\ UNCHANGED << nrdVars, appVars >>

\* RenderFrame up to UpdateConstantBuffer: context selection, WaitForSemaphore,
\* ResetCommandAllocator and the rewrite of the context's constant-buffer region
RenderFrame_Begin ==
    LET bufferedFrameIndex == BufferedFrameIndex(frameIndex) IN
    /\ pc = "Wait"
    /\ frameIndex < MaxFrames
    /\ deviceSemaphore[bufferedFrameIndex]
    /\ deviceSemaphore' = [deviceSemaphore EXCEPT ![bufferedFrameIndex] = FALSE]
    /\ recording' = {bufferedFrameIndex}
    /\ pc' = "Main"
    /\ dispatchLog' = << >>
    /\ UNCHANGED << frameIndex, m_TextureStates, gpuQueue, lastBuild, temporalLog >>
    /\ UNCHANGED << nrdVars, appVars >>

\* MAIN command buffer: BRDF integration (frame 0), TLAS build into the context's
\* staging regions, ray tracing
RenderFrame_Main ==
    LET afterIntegrateBRDF ==
            IF frameIndex = 0 THEN ApplyTransitions(m_TextureStates, IntegrateBRDFTransitions, 1)
            ELSE m_TextureStates
        afterBarrier == ApplyTransitions(afterIntegrateBRDF, RaytracingTransitions, 1)
    IN
    /\ pc = "Main"
    /\ m_TextureStates' = afterBarrier
    /\ dispatchLog' =
          dispatchLog
          \o (IF frameIndex = 0
              THEN << CmdDispatch("IntegrateBRDF", << "IntegrateBRDF0" >>, m_TextureStates),
                      CmdPipelineBarrier("IntegrateBRDF",
                          DirectTransitions(m_TextureStates, IntegrateBRDFTransitions)) >>
              ELSE << >>)
          \o << CmdPipelineBarrier("Raytracing",
                    DirectTransitions(afterIntegrateBRDF, RaytracingTransitions)),
                CmdDispatch("Raytracing", << "Raytracing1", "Raytracing2" >>, afterBarrier) >>
    /\ pc' = "Denoising"
    /\ UNCHANGED << frameIndex, deviceSemaphore, gpuQueue, lastBuild, recording, temporalLog >>
    /\ UNCHANGED << nrdVars, appVars >>

\* m_NRD.Denoise: the integration moves each texture of the user pool through its
\* state entry and leaves it readable or writable
DenoiseStates(textureStates, writable) ==
    [t \in Textures |->
        IF t \notin NrdUserPool THEN textureStates[t]
        ELSE LET access == IF t \in writable THEN SHADER_RESOURCE_STORAGE ELSE SHADER_RESOURCE
                 layout == IF t \in writable THEN GENERAL ELSE SHADER_RESOURCE
             IN IF textureStates[t].nextAccess = access /\ textureStates[t].nextLayout = layout
                THEN textureStates[t]
                ELSE Recorded(TextureTransition(textureStates[t], access, layout))]

\* DENOISING command buffer
RenderFrame_Denoising ==
    /\ pc = "Denoising"
    /\ \E writable \in SUBSET NrdUserPool :
          m_TextureStates' = DenoiseStates(m_TextureStates, writable)
    /\ pc' = "Composition"
    /\ UNCHANGED << frameIndex, deviceSemaphore, gpuQueue, lastBuild, recording, temporalLog,
                    dispatchLog >>
    /\ UNCHANGED << nrdVars, appVars >>

BuildRecord(stage, states, before, r, transitionMaxNum) ==
    << [stage |-> stage, states |-> states, before |-> before, n |-> r.n,
     transitions |-> r.transitions, assertFailed |-> r.assertFailed,
     transitionMaxNum |-> transitionMaxNum] >>

\* COMPOSITION command buffer, composition pass
RenderFrame_Composition ==
    LET r == BuildOptimizedTransitions(m_TextureStates, CompositionTransitions, OptimizedTransitionsNum) IN
    /\ pc = "Composition"
    /\ m_TextureStates' = r.textureStates
    /\ lastBuild' = BuildRecord("Composition", CompositionTransitions, m_TextureStates, r,
                                OptimizedTransitionsNum)
    /\ dispatchLog' =
          Append(dispatchLog, CmdDispatch("Composition", << "Composition1" >>, r.textureStates))
    /\ pc' = "Temporal"
    /\ UNCHANGED << frameIndex, deviceSemaphore, gpuQueue, recording, temporalLog >>
    /\ UNCHANGED << nrdVars, appVars >>

\* COMPOSITION command buffer, temporal pass
RenderFrame_Temporal ==
    LET isEven == (frameIndex % 2) = 0
        r == BuildOptimizedTransitions(m_TextureStates, TemporalTransitions(isEven), OptimizedTransitionsNum)
    IN
    /\ pc = "Temporal"
    /\ m_TextureStates' = r.textureStates
    /\ lastBuild' = BuildRecord("Temporal", TemporalTransitions(isEven), m_TextureStates, r,
                                OptimizedTransitionsNum)
    /\ temporalLog' =
          Append(temporalLog,
                 [frameIndex |-> frameIndex,
                  descriptorSet |-> TemporalDescriptorSet(isEven),
                  bound |-> GetDescriptorSet(TemporalDescriptorSet(isEven)),
                  shaderResource |-> { t \in Textures : r.textureStates[t].nextAccess = SHADER_RESOURCE },
                  storage |-> { t \in Textures : r.textureStates[t].nextAccess = SHADER_RESOURCE_STORAGE }])
    /\ dispatchLog' =
          Append(dispatchLog,
                 CmdDispatch("Temporal", << TemporalDescriptorSet(isEven) >>, r.textureStates))
    /\ pc' = "Copy"
    /\ UNCHANGED << frameIndex, deviceSemaphore, gpuQueue, recording >>
    /\ UNCHANGED << nrdVars, appVars >>

\* COMPOSITION command buffer, copy to the back buffer and UI
RenderFrame_Copy ==
    LET backBuffer(prevAccess, nextAccess, prevLayout, nextLayout) ==
            [texture |-> "backBuffer",
             barrier |-> [prevAccess |-> prevAccess, nextAccess |-> nextAccess,
                          prevLayout |-> prevLayout, nextLayout |-> nextLayout]]
    IN
    /\ pc = "Copy"
    /\ m_TextureStates' = ApplyTransitions(m_TextureStates, CopyTransitions, 1)
    /\ dispatchLog' =
          dispatchLog
          \o << CmdPipelineBarrier("Copy",
                    DirectTransitions(m_TextureStates, CopyTransitions)
                    \o << backBuffer(UNKNOWN, "COPY_DESTINATION", UNKNOWN, GENERAL) >>),
                CmdPipelineBarrier("UI",
                    << backBuffer("COPY_DESTINATION", "COLOR_ATTACHMENT", GENERAL, "COLOR_ATTACHMENT") >>),
                CmdPipelineBarrier("UI",
                    << backBuffer("COLOR_ATTACHMENT", UNKNOWN, "COLOR_ATTACHMENT", "PRESENT") >>) >>
    /\ pc' = "Submit"
    /\ UNCHANGED << frameIndex, deviceSemaphore, gpuQueue, lastBuild, recording, temporalLog >>
    /\ UNCHANGED << nrdVars, appVars >>

\* SubmitQueueWork with the context's device semaphore, SwapChainPresent; the caller
\* then moves to the next frame index
RenderFrame_Submit ==
    /\ pc = "Submit"
    /\ gpuQueue' = Append(gpuQueue, BufferedFrameIndex(frameIndex))
    /\ recording' = {}
    /\ frameIndex' = frameIndex + 1
    /\ pc' = "Wait"
    /\ lastBuild' = << >>
    /\ UNCHANGED << m_TextureStates, deviceSemaphore, temporalLog, dispatchLog >>
    /\ UNCHANGED << nrdVars, appVars >>

\* the queue finishes its oldest submission and signals that submission's device semaphore
GpuComplete ==
    /\ gpuQueue # << >>
    /\ deviceSemaphore' = [deviceSemaphore EXCEPT ![Head(gpuQueue)] = TRUE]
    /\ gpuQueue' = Tail(gpuQueue)
    /\ UNCHANGED << pc, frameIndex, m_TextureStates, lastBuild, recording, temporalLog,
                    dispatchLog >>
    /\ UNCHANGED << nrdVars, appVars >>

SampleNext ==
    \/ RenderFrame_Begin
    \/ RenderFrame_Main
    \/ RenderFrame_Denoising
    \/ RenderFrame_Composition
    \/ RenderFrame_Temporal
    \/ RenderFrame_Copy
    \/ RenderFrame_Submit
    \/ GpuComplete

(***************************************************************************)
(* Sample: struct Settings and the history reset of RenderFrame            *)
(***************************************************************************)
\* struct Settings with its default member initialisers. A float field is kept as an
\* integer in the unit noted: exposure 1e-5; sunAngularDiameter 1e-3; roughnessOverride,
\* metalnessOverride, antilagIntensityThreshold 1e-2; animationSpeed 1e-1; the others 1.
\* motionStartTime is 0 (off), -1 (start requested) or a positive time stamp.
Settings ==
    [motionStartTime |-> 0,
     camFov |-> 90,
     diffHitDistScale |-> 3,
     specHitDistScale |-> 3,
     antilagIntensityThreshold |-> 100,
     sunElevation |-> 45,
     sunAngularDiameter |-> 533,
     exposure |-> 17,
     roughnessOverride |-> 0,
     metalnessOverride |-> 0,
     emissionIntensity |-> 2000,
     skyAmbient |-> 0,
     unitsToMetersMultiplier |-> 1,
     animationSpeed |-> 0,
     onScreen |-> 0,
     diffMaxHistoryFrameNum |-> 31,
     specMaxHistoryFrameNum |-> 31,
     primaryFullBrdf |-> TRUE,
     indirectFullBrdf |-> TRUE,
     reference |-> FALSE,
     syncHistoryFrames |-> FALSE,
     checkerboard |-> TRUE,
     specSecondBounce |-> FALSE,
     diffSecondBounce |-> TRUE,
     emission |-> FALSE,
     emissiveObjects |-> FALSE,
     animatedObjects |-> FALSE,
     animatedObjectNum |-> 5,
     blink |-> FALSE]

\* fixed point with three decimals for the values derived from floats
FX == 1000

Abs(x) == IF x < 0 THEN -x ELSE x

\* Sin( DegToRad(degrees) ) in thousandths, for the elevations the model uses
Sin(degrees) ==
    CASE degrees = -90 -> -1000
      [] degrees = 0 -> 0
      [] degrees = 7 -> 122
      [] degrees = 30 -> 500
      [] degrees = 45 -> 707

\* Smoothstep(a, b, x) = t * t * (3 - 2 t) with t = saturate((x - a) / (b - a)), in thousandths
Smoothstep(a, b, x) ==
    LET q == ((x - a) * FX) \div (b - a)
        t == IF q < 0 THEN 0 ELSE IF q > FX THEN FX ELSE q
    IN (t * t * (3 * FX - 2 * t)) \div (FX * FX)

\* variant: a toggle of the reference mode does not reset the history
ResetHistoryFactor_NoReference(prev, cur, isActive, prevIsActive) ==
    LET sunCurr == Smoothstep(-900, 50, Sin(cur.sunElevation))
        sunPrev == Smoothstep(-900, 50, Sin(prev.sunElevation))
    IN IF \/ (prev.onScreen >= 11 /\ cur.onScreen <= 4) \/ (prev.onScreen <= 4 /\ cur.onScreen >= 11)
          \/ isActive # prevIsActive
       THEN 0
       ELSE FX - Smoothstep(0, 200, Abs(sunCurr - sunPrev))

\* resetHistoryFactor of RenderFrame, in thousandths
ResetHistoryFactor(prev, cur, isActive, prevIsActive) ==
    LET sunCurr == Smoothstep(-900, 50, Sin(cur.sunElevation))
        sunPrev == Smoothstep(-900, 50, Sin(prev.sunElevation))
    IN IF \/ prev.reference # cur.reference
          \/ (prev.onScreen >= 11 /\ cur.onScreen <= 4) \/ (prev.onScreen <= 4 /\ cur.onScreen >= 11)
          \/ isActive # prevIsActive
       THEN 0
       ELSE FX - Smoothstep(0, 200, Abs(sunCurr - sunPrev))

\* uint32_t(maxHistoryFrameNum * resetHistoryFactor + 0.5f)
MaxAccumulatedFrameNum(maxHistoryFrameNum, resetHistoryFactor) ==
    (maxHistoryFrameNum * resetHistoryFactor + FX \div 2) \div FX

\* one interaction with the settings window: at most one widget changes in a frame; the
\* Sync checkbox then copies the diffuse cap to the specular one
SettingsWindow(cur) ==
    LET OnScreenModes == { 0, 4, 5, 11 }
        SunElevations == { -90, 0, 30, 45 }
        HistoryFrameNums == { 0, 5, 31 }
        edited ==
            {cur} \cup {[cur EXCEPT !.reference = ~@]}
                  \cup {[cur EXCEPT !.syncHistoryFrames = ~@]}
                  \cup {[cur EXCEPT !.onScreen = v] : v \in OnScreenModes}
                  \cup {[cur EXCEPT !.sunElevation = v] : v \in SunElevations}
                  \cup {[cur EXCEPT !.diffMaxHistoryFrameNum = v] : v \in HistoryFrameNums}
                  \cup {[cur EXCEPT !.specMaxHistoryFrameNum = v] : v \in HistoryFrameNums}
    IN { IF e.syncHistoryFrames THEN [e EXCEPT !.specMaxHistoryFrameNum = e.diffMaxHistoryFrameNum]
         ELSE e : e \in edited }

HistoryInit ==
    /\ m_PrevSettings = Settings
    /\ m_IsActive = TRUE
    /\ m_PrevIsActive = TRUE
    /\ prepared = FALSE
    /\ pushed = {}
    /\ rayTracing = {}
    /\ nrdCalls = << >>

\* PrepareFrame: m_PrevSettings = m_Settings, then the settings window; the framework has
\* set m_IsActive before the frame
PrepareFrame ==
    /\ ~prepared
    /\ m_PrevSettings' = m_Settings
    /\ m_Settings' \in SettingsWindow(m_Settings)
    /\ m_IsActive' \in BOOLEAN
    /\ prepared' = TRUE
    /\ UNCHANGED << m_PrevIsActive, pushed, rayTracing, nrdCalls >>
    /\ UNCHANGED << nrdVars, sampleVars, tlasVars, testsVars, sceneVars, shutdownVars >>

\* PrepareFrame when the widget touched is one the ray tracer and the denoiser share:
\* "0.5 rpp", "Spec 2nd", the two "Hit distance range" sliders, or the reference mode
PrepareFrame_Tracing ==
    /\ ~prepared
    /\ m_PrevSettings' = m_Settings
    /\ m_Settings' \in {m_Settings} \cup {[m_Settings EXCEPT !.reference = ~@]}
                      \cup {[m_Settings EXCEPT !.checkerboard = ~@]}
                      \cup {[m_Settings EXCEPT !.specSecondBounce = ~@]}
                      \cup {[m_Settings EXCEPT !.diffHitDistScale = v] : v \in {0, 3, 10}}
                      \cup {[m_Settings EXCEPT !.specHitDistScale = v] : v \in {3, 7}}
    /\ m_IsActive' \in BOOLEAN
    /\ prepared' = TRUE
    /\ UNCHANGED << m_PrevIsActive, pushed, rayTracing, nrdCalls >>
    /\ UNCHANGED << nrdVars, sampleVars, tlasVars, testsVars, sceneVars, shutdownVars >>

\* const nrd::MethodDesc methodDescs[] of Initialize: the methods m_NRD is created with
methodDescs == << "DIFFUSE", "SPECULAR", "SHADOW" >>

\* GetTrimmingParams, in units of 1e-4
GetTrimmingParams(settings_) ==
    IF settings_.reference THEN << 10000, 0, 1 >> ELSE << 8500, 400, 1100 >>

\* variant: the two flags take each other's bit of the raygen index
RaygenIndex_BitsSwapped(settings_) ==
    (IF settings_.checkerboard THEN 1 ELSE 0) + (IF settings_.specSecondBounce THEN 2 ELSE 0)

\* raygenIndex = checkerboard ? 2 : 0; raygenIndex += specSecondBounce ? 1 : 0
RaygenIndex(settings_) ==
    (IF settings_.checkerboard THEN 2 ELSE 0) + (IF settings_.specSecondBounce THEN 1 ELSE 0)

\* variant: the shadow method gets no settings
DenoisingCalls_NoShadow(settings_, resetHistoryFactor) ==
    << [call |-> "SetMethodSettings", method |-> "DIFFUSE",
        settings |-> [hitDistanceParameters |-> << settings_.diffHitDistScale, 1, 0, 0 >>,
                      maxAccumulatedFrameNum |->
                          MaxAccumulatedFrameNum(settings_.diffMaxHistoryFrameNum, resetHistoryFactor),
                      checkerboard |-> settings_.checkerboard]],
       [call |-> "SetMethodSettings", method |-> "SPECULAR",
        settings |-> [hitDistanceParameters |-> << settings_.specHitDistScale, 1, 0, 0 >>,
                      lobeTrimmingParameters |-> GetTrimmingParams(settings_),
                      maxAccumulatedFrameNum |->
                          MaxAccumulatedFrameNum(settings_.specMaxHistoryFrameNum, resetHistoryFactor),
                      checkerboard |-> settings_.checkerboard]],
       [call |-> "Denoise", method |-> NONE,
        settings |-> [forceReferenceAccumulation |-> settings_.reference]] >>

\* the DENOISING block of RenderFrame: the calls on m_NRD with the settings they carry.
\* hitDistanceParameters is { scale, 0.1f, 0.0f, 0.0f } with the second entry in tenths;
\* lobeTrimmingParameters is in units of 1e-4
DenoisingCalls(settings_, resetHistoryFactor) ==
    << [call |-> "SetMethodSettings", method |-> "DIFFUSE",
        settings |-> [hitDistanceParameters |-> << settings_.diffHitDistScale, 1, 0, 0 >>,
                      maxAccumulatedFrameNum |->
                          MaxAccumulatedFrameNum(settings_.diffMaxHistoryFrameNum, resetHistoryFactor),
                      checkerboard |-> settings_.checkerboard]],
       [call |-> "SetMethodSettings", method |-> "SPECULAR",
        settings |-> [hitDistanceParameters |-> << settings_.specHitDistScale, 1, 0, 0 >>,
                      lobeTrimmingParameters |-> GetTrimmingParams(settings_),
                      maxAccumulatedFrameNum |->
                          MaxAccumulatedFrameNum(settings_.specMaxHistoryFrameNum, resetHistoryFactor),
                      checkerboard |-> settings_.checkerboard]],
       [call |-> "SetMethodSettings", method |-> "SHADOW",
        settings |-> [lightSourceAngularDiameter |-> settings_.sunAngularDiameter]],
       [call |-> "Denoise", method |-> NONE,
        settings |-> [forceReferenceAccumulation |-> settings_.reference]] >>

\* RenderFrame, history reset: resetHistoryFactor and the maxAccumulatedFrameNum of the
\* settings pushed to the diffuse and specular methods. Before that block the same call
\* has written the global constants (UpdateConstantBuffer) and picked the raygen shader of
\* the ray tracing dispatch; nothing in between writes a field of m_Settings they read
RenderFrame_ResetHistory ==
    LET resetHistoryFactor == ResetHistoryFactor(m_PrevSettings, m_Settings, m_IsActive, m_PrevIsActive) IN
    /\ prepared
    /\ m_PrevIsActive' = m_IsActive
    /\ pushed' = {[resetHistoryFactor |-> resetHistoryFactor,
                   diffuse |-> MaxAccumulatedFrameNum(m_Settings.diffMaxHistoryFrameNum, resetHistoryFactor),
                   specular |-> MaxAccumulatedFrameNum(m_Settings.specMaxHistoryFrameNum, resetHistoryFactor)]}
    /\ rayTracing' = {[raygenIndex |-> RaygenIndex(m_Settings),
                       gTrimmingParams |-> GetTrimmingParams(m_Settings),
                       gDiffHitDistScale |-> m_Settings.diffHitDistScale,
                       gSpecHitDistScale |-> m_Settings.specHitDistScale]}
    /\ nrdCalls' = DenoisingCalls(m_Settings, resetHistoryFactor)
    /\ prepared' = FALSE
    /\ UNCHANGED << m_Settings, m_PrevSettings, m_IsActive >>
    /\ UNCHANGED << nrdVars, sampleVars, tlasVars, testsVars, sceneVars, shutdownVars >>

HistoryNext ==
    \/ PrepareFrame
    \/ RenderFrame_ResetHistory

DenoiseNext ==
    \/ PrepareFrame_Tracing
    \/ RenderFrame_ResetHistory

(***************************************************************************)
(* Sample: BuildTopLevelAccelerationStructure                              *)
(***************************************************************************)
MaxInstances == 4

FLAG_FIRST_BIT == 20
INSTANCE_ID_MASK == 1048575
FLAG_OPAQUE_OR_ALPHA_OPAQUE == 1
FLAG_TRANSPARENT == 2
FLAG_EMISSION == 4
FLAG_FORCED_EMISSION == 8

\* the animated instances SetupAnimatedObjects appends to the scene (the sample appends
\* ANIMATED_INSTANCE_MAX_NUM of them; the model's scene holds two)
AnimatedInstanceNum == 2

\* the instances of the built-in default scene come first and are never written
m_DefaultInstancesOffset == 1

\* bitwise | of two uint32_t
RECURSIVE BitOr(_, _)
BitOr(a, b) ==
    IF a = 0 THEN b ELSE IF b = 0 THEN a
    ELSE (IF a % 2 = 1 \/ b % 2 = 1 THEN 1 ELSE 0) + 2 * BitOr(a \div 2, b \div 2)

\* ---- float4x4 over exact rationals ----
\* A float4x4 holding an affine transform is [m, t, d]: linear part m / d, translation t / d.
Float4x4Identity == [m |-> << << 1, 0, 0 >>, << 0, 1, 0 >>, << 0, 0, 1 >> >>, t |-> << 0, 0, 0 >>, d |-> 1]

\* the same rational matrix in lowest terms with a positive denominator
Reduced(M) ==
    LET RECURSIVE GCD(_, _)
        GCD(a, b) == IF b = 0 THEN Abs(a) ELSE GCD(b, a % Abs(b))
        GCD3(g, v) == GCD(GCD(GCD(g, v[1]), v[2]), v[3])
        Divisor(X) ==
            LET g == GCD3(GCD3(GCD3(GCD3(Abs(X.d), X.t), X.m[1]), X.m[2]), X.m[3])
            IN IF X.d < 0 THEN -g ELSE g
        DivideBy(X, k) ==
            [m |-> [i \in 1..3 |-> [j \in 1..3 |-> X.m[i][j] \div k]],
             t |-> [i \in 1..3 |-> X.t[i] \div k],
             d |-> X.d \div k]
    IN CHOOSE R \in { DivideBy(X, Divisor(X)) : X \in {M} } : TRUE

\* float4x4::Invert, by the adjugate and the determinant of the linear part
Invert(M) ==
    LET Det3(m) ==
              m[1][1] * (m[2][2] * m[3][3] - m[2][3] * m[3][2])
            - m[1][2] * (m[2][1] * m[3][3] - m[2][3] * m[3][1])
            + m[1][3] * (m[2][1] * m[3][2] - m[2][2] * m[3][1])
        Adj3(m) ==
            << << m[2][2] * m[3][3] - m[2][3] * m[3][2], m[1][3] * m[3][2] - m[1][2] * m[3][3], m[1][2] * m[2][3] - m[1][3] * m[2][2] >>,
               << m[2][3] * m[3][1] - m[2][1] * m[3][3], m[1][1] * m[3][3] - m[1][3] * m[3][1], m[1][3] * m[2][1] - m[1][1] * m[2][3] >>,
               << m[2][1] * m[3][2] - m[2][2] * m[3][1], m[1][2] * m[3][1] - m[1][1] * m[3][2], m[1][1] * m[2][2] - m[1][2] * m[2][1] >> >>
        Inverse(X, adj) ==
            [m |-> [i \in 1..3 |-> [j \in 1..3 |-> X.d * adj[i][j]]],
             t |-> [i \in 1..3 |-> -(adj[i][1] * X.t[1] + adj[i][2] * X.t[2] + adj[i][3] * X.t[3])],
             d |-> Det3(X.m)]
    IN CHOOSE R \in { Reduced(Inverse(X, Adj3(X.m))) : X \in {M} } : TRUE

\* float4x4 operator *
Mul(A, B) ==
    LET Product(X, Y) ==
            [m |-> [i \in 1..3 |-> [j \in 1..3 |->
                        X.m[i][1] * Y.m[1][j] + X.m[i][2] * Y.m[2][j] + X.m[i][3] * Y.m[3][j]]],
             t |-> [i \in 1..3 |->
                        X.m[i][1] * Y.t[1] + X.m[i][2] * Y.t[2] + X.m[i][3] * Y.t[3] + Y.d * X.t[i]],
             d |-> X.d * Y.d]
    IN CHOOSE R \in { Reduced(Product(X, Y)) : X \in {A}, Y \in {B} } : TRUE

\* float4x4 m = rotation; m.AddTranslation(m_Camera.GetRelative(position)): with
\* CAMERA_RELATIVE the translation is the position as seen from the camera
ObjectToWorld(camera, rotation, position) ==
    [m |-> rotation,
     t |-> [i \in 1..3 |-> position[i] - camera.m_GlobalPosition[i]],
     d |-> 1]

\* variant: the previous transform is multiplied by the transform itself, not its inverse
WorldToWorldPrev_NoInvert(camera, instance) ==
    LET mObjectToWorld == ObjectToWorld(camera, instance.rotation, instance.position)
        mObjectToWorldPrev == ObjectToWorld(camera, instance.rotationPrev, instance.positionPrev)
    IN Mul(mObjectToWorldPrev, mObjectToWorld)

\* mWorldToWorldPrev = mObjectToWorldPrev * inverse(mObjectToWorld)
WorldToWorldPrev(camera, instance) ==
    LET mObjectToWorld == ObjectToWorld(camera, instance.rotation, instance.position)
        mObjectToWorldPrev == ObjectToWorld(camera, instance.rotationPrev, instance.positionPrev)
        mWorldToObject == Invert(mObjectToWorld)
    IN Mul(mObjectToWorldPrev, mWorldToObject)

\* variant: the emissive-objects option is looked at before the material
InstanceFlags_OptionFirst(settings_, material, i, staticInstanceCount, rnd) ==
    IF settings_.emissiveObjects /\ i > staticInstanceCount /\ rnd
    THEN (IF settings_.emission THEN FLAG_FORCED_EMISSION ELSE FLAG_OPAQUE_OR_ALPHA_OPAQUE)
    ELSE IF material.isEmissive
    THEN (IF settings_.emission THEN FLAG_EMISSION ELSE FLAG_OPAQUE_OR_ALPHA_OPAQUE)
    ELSE IF material.isTransparent THEN FLAG_TRANSPARENT
    ELSE FLAG_OPAQUE_OR_ALPHA_OPAQUE

\* the classification of instance i; rnd is the outcome of Rand::uf1() > 0.66f
InstanceFlags(settings_, material, i, staticInstanceCount, rnd) ==
    IF material.isEmissive
    THEN (IF settings_.emission THEN FLAG_EMISSION ELSE FLAG_OPAQUE_OR_ALPHA_OPAQUE)
    ELSE IF settings_.emissiveObjects /\ i > staticInstanceCount /\ rnd
    THEN (IF settings_.emission THEN FLAG_FORCED_EMISSION ELSE FLAG_OPAQUE_OR_ALPHA_OPAQUE)
    ELSE IF material.isTransparent THEN FLAG_TRANSPARENT
    ELSE FLAG_OPAQUE_OR_ALPHA_OPAQUE

\* variant: the flags are placed at bit 16
InstanceIdAndFlags_Bit16(instanceNum, flags) == BitOr(instanceNum, flags * 2 ^ 16)

\* instanceNum | (flags << FLAG_FIRST_BIT); flags is at most 0x08, so the shifted value
\* stays below 2^24 and nothing is lost from the uint32_t
InstanceIdAndFlags(instanceNum, flags) == BitOr(instanceNum, flags * 2 ^ FLAG_FIRST_BIT)

\* one iteration of the instance loop for the instance at (zero-based) index i
TlasStep(acc, i, staticInstanceCount, settings_, camera, rnd) ==
    LET instance == acc.instances[i + 1]
        material == instance.material
        flags == InstanceFlags(settings_, material, i, staticInstanceCount, rnd)
        mObjectToWorld == ObjectToWorld(camera, instance.rotation, instance.position)
    IN IF material.isOff THEN acc
       ELSE [instances |-> [acc.instances EXCEPT ![i + 1].positionPrev = instance.position,
                                                 ![i + 1].rotationPrev = instance.rotation],
             tlasData |-> Append(acc.tlasData,
                                 [instance |-> i,
                                  transform |-> mObjectToWorld,
                                  instanceId |-> InstanceIdAndFlags(acc.instanceNum, flags),
                                  mask |-> flags]),
             instanceData |-> Append(acc.instanceData,
                                     [instance |-> i,
                                      unmoved |-> instance.positionPrev = instance.position
                                                  /\ instance.rotationPrev = instance.rotation,
                                      mObjectToWorld |-> mObjectToWorld,
                                      mWorldToWorldPrev |-> WorldToWorldPrev(camera, instance)]),
             instanceNum |-> acc.instanceNum + 1,
             hasTransparentObjects |-> acc.hasTransparentObjects \/ flags = FLAG_TRANSPARENT]

\* for (i = m_DefaultInstancesOffset; i < instanceCount; i++)
RECURSIVE TlasLoop(_, _, _, _, _, _, _)
TlasLoop(acc, i, instanceCount, staticInstanceCount, settings_, camera, lucky) ==
    IF i >= instanceCount THEN acc
    ELSE CHOOSE r \in { TlasLoop(next, i + 1, instanceCount, staticInstanceCount, settings_, camera, lucky) :
                         next \in { TlasStep(acc, i, staticInstanceCount, settings_, camera, i \in lucky) } } : TRUE

\* the materials a scene may give an instance
Materials ==
    { [isOff |-> TRUE, isEmissive |-> FALSE, isTransparent |-> FALSE],
      [isOff |-> FALSE, isEmissive |-> TRUE, isTransparent |-> FALSE],
      [isOff |-> FALSE, isEmissive |-> TRUE, isTransparent |-> TRUE],
      [isOff |-> FALSE, isEmissive |-> FALSE, isTransparent |-> TRUE],
      [isOff |-> FALSE, isEmissive |-> FALSE, isTransparent |-> FALSE] }

\* utils::Instance at index i: placed by a rotation, a quarter turn or a scaled rotation;
\* at rest, or moved and turned since the previous frame
Instance(i, material, moved) ==
    LET Rotation(k) ==
            CASE k % 3 = 0 -> << << 1, 0, 0 >>, << 0, 1, 0 >>, << 0, 0, 1 >> >>
              [] k % 3 = 1 -> << << 0, -1, 0 >>, << 1, 0, 0 >>, << 0, 0, 1 >> >>
              [] k % 3 = 2 -> << << 2, 0, 0 >>, << 0, 2, 0 >>, << 0, 0, 2 >> >>
    IN [material |-> material,
        position |-> << i, 2 * i, -i >>,
        rotation |-> Rotation(i),
        positionPrev |-> IF moved THEN << i + 1, 2 * i, -i - 2 >> ELSE << i, 2 * i, -i >>,
        rotationPrev |-> IF moved THEN Rotation(i + 1) ELSE Rotation(i)]

CameraPositions == { << 0, 0, 0 >>, << 5, -3, 2 >> }

\* a scene after Initialize: materials per instance, at most one instance in motion
TlasInitWith(materials, moving, cameraPosition) ==
    /\ instances = [k \in 1..MaxInstances |->
                       Instance(k - 1,
                                IF k <= m_DefaultInstancesOffset THEN CHOOSE m \in Materials :
                                        ~m.isOff /\ ~m.isEmissive /\ ~m.isTransparent
                                ELSE materials[k],
                                k \in moving)]
    /\ m_Camera = [m_GlobalPosition |-> cameraPosition]
    /\ tlasData = << >>
    /\ instanceData = << >>
    /\ m_HasTransparentObjects = FALSE
    /\ gTransparent = 0
    /\ tlasPc = "UpdateConstantBuffer"

\* UpdateConstantBuffer, called by RenderFrame before the MAIN command buffer is recorded
UpdateConstantBuffer ==
    /\ tlasPc = "UpdateConstantBuffer"
    /\ gTransparent' = IF m_HasTransparentObjects THEN 1 ELSE 0
    /\ tlasPc' = "TLAS"
    /\ UNCHANGED << m_Settings, instances, m_Camera, tlasData, instanceData,
                    m_HasTransparentObjects >>
    /\ UNCHANGED << nrdVars, sampleVars, historyVars, testsVars, sceneVars, shutdownVars >>

\* BuildTopLevelAccelerationStructure
BuildTopLevelAccelerationStructure ==
    /\ tlasPc = "TLAS"
    /\ \E wave \in BOOLEAN :
       LET isAnimatedObjects == m_Settings.animatedObjects /\ (m_Settings.blink => wave)
           instanceCount == Len(instances)
                            - (AnimatedInstanceNum - (IF isAnimatedObjects THEN m_Settings.animatedObjectNum ELSE 0))
           staticInstanceCount == Len(instances) - AnimatedInstanceNum
       IN \E lucky \in SUBSET ((staticInstanceCount + 1)..(instanceCount - 1)) :
            \E r \in { TlasLoop([instances |-> instances, tlasData |-> << >>, instanceData |-> << >>,
                                  instanceNum |-> 0, hasTransparentObjects |-> FALSE],
                                 m_DefaultInstancesOffset, instanceCount, staticInstanceCount,
                                 m_Settings, m_Camera, lucky) } :
               /\ instances' = r.instances
               /\ tlasData' = r.tlasData
               /\ instanceData' = r.instanceData
               /\ m_HasTransparentObjects' = r.hasTransparentObjects
               /\ tlasPc' = "Raytracing"
               /\ UNCHANGED << m_Settings, m_Camera, gTransparent >>
               /\ UNCHANGED << nrdVars, sampleVars, historyVars, testsVars, sceneVars, shutdownVars >>

\* the ray tracing dispatch of the frame reads the global constants and the structure just
\* built; the rest of RenderFrame touches neither
RenderFrame_DispatchRays ==
    /\ tlasPc = "Raytracing"
    /\ tlasPc' = "UpdateConstantBuffer"
    /\ UNCHANGED << m_Settings, instances, m_Camera, tlasData, instanceData,
                    m_HasTransparentObjects, gTransparent >>
    /\ UNCHANGED << nrdVars, sampleVars, historyVars, testsVars, sceneVars, shutdownVars >>

TlasNext ==
    \/ UpdateConstantBuffer
    \/ BuildTopLevelAccelerationStructure
    \/ RenderFrame_DispatchRays

(***************************************************************************)
(* Sample: PrepareFrame, the TESTS panel                                   *)
(***************************************************************************)
MaxTime == 7

\* one record of tests.bin: sizeof(m_Settings) bytes, then m_Camera.GetDataSize() bytes
TestItem(settings_, camera) == [settings |-> settings_, camera |-> camera]

\* variant: the file length is read in the first frame only
ReloadedItemNum_FirstFrameOnly(file, needed, num) ==
    IF needed /\ num = 0 THEN Len(file) ELSE num

\* if (reloadNeeded) itemNum = _filelength(fp) / itemSize
ReloadedItemNum(file, needed, num) == IF needed THEN Len(file) ELSE num

\* fseek(fp, i * itemSize), fread(&m_Settings), fread(m_Camera.GetDataPtr())
ReadItem(file, i) == file[i + 1]

\* variant: the settings are written as they are
AddItem_NoMotionReset(settings_, camera) == TestItem(settings_, camera)

\* Add: motionStartTime = motionStartTime > 0.0 ? -1.0 : 0.0, then both blocks are written
AddItem(settings_, camera) ==
    TestItem([settings_ EXCEPT !.motionStartTime = IF @ > 0 THEN -1 ELSE 0], camera)

\* variant: the loop skips the record at index lastSelected
DeleteItem_OffByOne(data, num, selected) ==
    LET n == num - (IF selected < num THEN 1 ELSE 0)
    IN [j \in 1..n |-> data[IF j - 1 < selected THEN j ELSE j + 1]]

\* Delete: for (i = 0; i < itemNum; i++) if (i != lastSelected - 1) fwrite(&data[i * itemSize])
DeleteItem(data, num, selected) ==
    LET n == num - (IF selected - 1 < num THEN 1 ELSE 0)
    IN [j \in 1..n |-> data[IF j - 1 < selected - 1 THEN j ELSE j + 1]]

\* the rest of PrepareFrame: a requested camera motion starts at the current time stamp
MotionUpdate(settings_, time) ==
    IF settings_.motionStartTime > 0 THEN settings_
    ELSE IF settings_.motionStartTime = -1 THEN [settings_ EXCEPT !.motionStartTime = time]
    ELSE settings_

\* the "Emulate motion" button
EmulateMotion(settings_) ==
    [settings_ EXCEPT !.motionStartTime = IF @ > 0 THEN 0 ELSE -1]

\* what a frame leaves in the log when its click touched neither the file nor the settings
Logged(op) ==
    [testsLog EXCEPT !.op = op, !.fileBefore = testsFile, !.selected = lastSelected,
                     !.justAdded = FALSE]

\* the end of every frame: motion start, camera update, the timer advances
EndOfFrame(settings_) ==
    /\ m_Settings' = MotionUpdate(settings_, timeStamp)
    /\ timeStamp' = timeStamp + 1

TestsInitWith(file) ==
    /\ testsFile = file
    /\ itemNum = 0
    /\ reloadNeeded = TRUE
    /\ lastSelected = 0
    /\ timeStamp = 1
    /\ testsLog = [op |-> "none", fileBefore |-> file, selected |-> 0, justAdded |-> FALSE,
                   restored |-> TestItem(Settings, [m_GlobalPosition |-> << 0, 0, 0 >>]),
                   atAdd |-> TestItem(Settings, [m_GlobalPosition |-> << 0, 0, 0 >>]),
                   addedAt |-> 0]

\* a frame with no click on the panel; the user may move the camera
PrepareFrame_NoClick ==
    /\ timeStamp < MaxTime
    /\ itemNum' = ReloadedItemNum(testsFile, reloadNeeded, itemNum)
    /\ reloadNeeded' = FALSE
    /\ m_Camera' \in { [m_GlobalPosition |-> p] : p \in CameraPositions }
    /\ testsLog' = Logged("none")
    /\ EndOfFrame(m_Settings)
    /\ UNCHANGED << testsFile, lastSelected >>
    /\ UNCHANGED << instances, tlasData, instanceData, m_HasTransparentObjects, gTransparent, tlasPc >>
    /\ UNCHANGED << nrdVars, sampleVars, historyVars, sceneVars, shutdownVars >>

\* a frame in which "Emulate motion" is clicked
PrepareFrame_EmulateMotion ==
    /\ timeStamp < MaxTime
    /\ itemNum' = ReloadedItemNum(testsFile, reloadNeeded, itemNum)
    /\ reloadNeeded' = FALSE
    /\ testsLog' = Logged("Emulate motion")
    /\ EndOfFrame(EmulateMotion(m_Settings))
    /\ UNCHANGED << testsFile, lastSelected >>
    /\ UNCHANGED << tlasVars, nrdVars, sampleVars, historyVars, sceneVars, shutdownVars >>

\* a frame in which the button of record i + 1 is clicked
PrepareFrame_Load ==
    LET num == ReloadedItemNum(testsFile, reloadNeeded, itemNum) IN
    \E i \in 0..(num - 1) :
        LET item == ReadItem(testsFile, i) IN
        /\ timeStamp < MaxTime
        /\ itemNum' = num
        /\ reloadNeeded' = FALSE
        /\ m_Camera' = item.camera
        /\ lastSelected' = i + 1
        /\ testsLog' = [testsLog EXCEPT !.op = "Load", !.fileBefore = testsFile,
                                        !.selected = lastSelected, !.restored = item,
                                        !.justAdded = (i + 1 = testsLog.addedAt)]
        /\ EndOfFrame(item.settings)
        /\ UNCHANGED testsFile
        /\ UNCHANGED << instances, tlasData, instanceData, m_HasTransparentObjects, gTransparent, tlasPc >>
        /\ UNCHANGED << nrdVars, sampleVars, historyVars, sceneVars, shutdownVars >>

\* a frame in which "Add" is clicked
PrepareFrame_Add ==
    LET item == AddItem(m_Settings, m_Camera) IN
    /\ timeStamp < MaxTime
    /\ itemNum' = ReloadedItemNum(testsFile, reloadNeeded, itemNum)
    /\ testsFile' = Append(testsFile, item)
    /\ reloadNeeded' = TRUE
    /\ testsLog' = [testsLog EXCEPT !.op = "Add", !.fileBefore = testsFile,
                                    !.selected = lastSelected, !.justAdded = FALSE,
                                    !.atAdd = TestItem(m_Settings, m_Camera),
                                    !.addedAt = Len(testsFile) + 1]
    /\ EndOfFrame(item.settings)
    /\ UNCHANGED lastSelected
    /\ UNCHANGED << tlasVars, nrdVars, sampleVars, historyVars, sceneVars, shutdownVars >>

\* a frame in which "Del n" is clicked
PrepareFrame_Delete ==
    LET num == ReloadedItemNum(testsFile, reloadNeeded, itemNum) IN
    /\ timeStamp < MaxTime
    /\ lastSelected # 0
    /\ testsFile' = DeleteItem(testsFile, num, lastSelected)
    /\ reloadNeeded' = TRUE
    /\ itemNum' = num - 1
    /\ lastSelected' = (IF lastSelected < num - 1 THEN lastSelected ELSE num - 1)
    /\ testsLog' = [testsLog EXCEPT !.op = "Delete", !.fileBefore = testsFile,
                                    !.selected = lastSelected, !.justAdded = FALSE,
                                    !.addedAt = 0]
    /\ EndOfFrame(m_Settings)
    /\ UNCHANGED << tlasVars, nrdVars, sampleVars, historyVars, sceneVars, shutdownVars >>

TestsNext ==
    \/ PrepareFrame_NoClick
    \/ PrepareFrame_EmulateMotion
    \/ PrepareFrame_Load
    \/ PrepareFrame_Add
    \/ PrepareFrame_Delete

(***************************************************************************)
(* Sample: LoadScene                                                       *)
(***************************************************************************)
MaxPrompts == 3

\* the scene file paths of the command line and of the file-open dialog
ScenePaths ==
    { << "Z", "e", "r", "o", "D", "a", "y", "/", "a" >>,
      << "B", "i", "s", "t", "r", "o", "I", "n", "t", "e", "r", "i", "o", "r", "/", "a" >>,
      << "B", "i", "s", "t", "r", "o", "E", "x", "t", "e", "r", "i", "o", "r", "/", "a" >>,
      << "S", "h", "a", "d", "e", "r", "B", "a", "l", "l", "s", "/", "a" >>,
      << "S", "h", "a", "d", "e", "r", "B", "a", "l", "l", "s", "/", "Z", "e", "r", "o", "D", "a", "y" >>,
      << "S", "p", "o", "n", "z", "a", "/", "a" >> }

\* strstr(s, name) != nullptr
StrStr(s, name) ==
    \E i \in 1..(Len(s) - Len(name) + 1) : SubSeq(s, i, i + Len(name) - 1) = name

\* variant: the last branch tests a misspelt name
ScenePreset_Misspelt(sceneFile) ==
    IF StrStr(sceneFile, << "B", "i", "s", "t", "r", "o", "I", "n", "t", "e", "r", "i", "o", "r" >>) THEN "BistroInterior"
    ELSE IF StrStr(sceneFile, << "B", "i", "s", "t", "r", "o", "E", "x", "t", "e", "r", "i", "o", "r" >>) THEN "BistroExterior"
    ELSE IF StrStr(sceneFile, << "S", "h", "a", "d", "e", "r", "B", "a", "l", "l", "s" >>) THEN "ShaderBalls"
    ELSE IF StrStr(sceneFile, << "Z", "e", "r", "o", "d", "a", "y" >>) THEN "ZeroDay"
    ELSE "none"

\* the branch of the if / else if chain over strstr(m_SceneFile, ...) that is taken
ScenePreset(sceneFile) ==
    IF StrStr(sceneFile, << "B", "i", "s", "t", "r", "o", "I", "n", "t", "e", "r", "i", "o", "r" >>) THEN "BistroInterior"
    ELSE IF StrStr(sceneFile, << "B", "i", "s", "t", "r", "o", "E", "x", "t", "e", "r", "i", "o", "r" >>) THEN "BistroExterior"
    ELSE IF StrStr(sceneFile, << "S", "h", "a", "d", "e", "r", "B", "a", "l", "l", "s" >>) THEN "ShaderBalls"
    ELSE IF StrStr(sceneFile, << "Z", "e", "r", "o", "D", "a", "y" >>) THEN "ZeroDay"
    ELSE "none"

\* the assignments of the branch taken
ApplyPreset(settings_, sceneFile) ==
    CASE ScenePreset(sceneFile) = "BistroInterior" ->
            [settings_ EXCEPT !.exposure = 600, !.unitsToMetersMultiplier = 1, !.specHitDistScale = 7,
                              !.sunElevation = 7, !.skyAmbient = 1, !.emissionIntensity = 5000,
                              !.emission = TRUE, !.antilagIntensityThreshold = 8]
      [] ScenePreset(sceneFile) = "BistroExterior" ->
            [settings_ EXCEPT !.exposure = 50, !.unitsToMetersMultiplier = 1, !.specHitDistScale = 12,
                              !.skyAmbient = 1, !.emissionIntensity = 5000, !.emission = TRUE,
                              !.antilagIntensityThreshold = 8]
      [] ScenePreset(sceneFile) = "ShaderBalls" ->
            [settings_ EXCEPT !.exposure = 17, !.unitsToMetersMultiplier = 1, !.specHitDistScale = 10,
                              !.specSecondBounce = TRUE, !.diffSecondBounce = FALSE, !.skyAmbient = 10,
                              !.antilagIntensityThreshold = 10]
      [] ScenePreset(sceneFile) = "ZeroDay" ->
            [settings_ EXCEPT !.exposure = 100, !.unitsToMetersMultiplier = 1, !.emissionIntensity = 15000,
                              !.emission = TRUE, !.roughnessOverride = 7, !.metalnessOverride = 25,
                              !.specSecondBounce = TRUE, !.camFov = 75, !.indirectFullBrdf = FALSE,
                              !.primaryFullBrdf = FALSE, !.animationSpeed = -6, !.diffHitDistScale = 2,
                              !.specHitDistScale = 25, !.sunElevation = -90, !.sunAngularDiameter = 0,
                              !.checkerboard = FALSE, !.antilagIntensityThreshold = 5]
      [] ScenePreset(sceneFile) = "none" -> settings_

\* variant: isLoaded = utils::LoadScene(...)
IsLoadedAfter_Assigned(loaded, ok) == ok

\* isLoaded |= utils::LoadScene(...)
IsLoadedAfter(loaded, ok) == loaded \/ ok

\* NRI_ABORT_ON_FALSE(isLoaded), then the presets
FinishLoadScene(loaded, sceneFile) ==
    IF loaded
    THEN /\ scenePc' = "loaded"
         /\ m_Settings' = ApplyPreset(m_Settings, sceneFile)
    ELSE /\ scenePc' = "aborted"
         /\ UNCHANGED m_Settings

SceneInitWith(isAutomated, sceneFile) ==
    /\ scenePc = "Initialize"
    /\ automated = isAutomated
    /\ m_SceneFile = sceneFile
    /\ isLoaded = FALSE
    /\ m_Scene = << >>
    /\ sceneLog = [op |-> "none", ok |-> TRUE]

\* LoadScene up to its first prompt: the built-in scene, then in automated mode the
\* requested scene and the rest of the function
LoadScene ==
    /\ scenePc = "Initialize"
    /\ \E defaultOk \in BOOLEAN :
          IF ~defaultOk
          THEN /\ scenePc' = "aborted"
               /\ sceneLog' = [op |-> "default", ok |-> FALSE]
               /\ UNCHANGED << m_Settings, isLoaded, m_Scene >>
          ELSE IF automated
          THEN \E ok \in BOOLEAN :
               /\ isLoaded' = ok
               /\ m_Scene' = IF ok THEN << m_SceneFile >> ELSE << >>
               /\ sceneLog' = [op |-> "requested", ok |-> ok]
               /\ FinishLoadScene(ok, m_SceneFile)
          ELSE /\ scenePc' = "dialog"
               /\ sceneLog' = [op |-> "default", ok |-> TRUE]
               /\ UNCHANGED << m_Settings, isLoaded, m_Scene >>
    /\ UNCHANGED << automated, m_SceneFile >>
    /\ UNCHANGED << nrdVars, sampleVars, historyVars, tlasVars, testsVars, shutdownVars >>

\* one pass of the do-while loop in which the user selects a file
OpenFileDialog_Select ==
    /\ scenePc = "dialog"
    /\ Len(m_Scene) < MaxPrompts
    /\ \E sceneFile \in ScenePaths, ok \in BOOLEAN :
          /\ isLoaded' = IsLoadedAfter(isLoaded, ok)
          /\ m_SceneFile' = IF isLoaded' THEN sceneFile ELSE m_SceneFile
          /\ m_Scene' = IF ok THEN Append(m_Scene, sceneFile) ELSE m_Scene
          /\ sceneLog' = [op |-> "select", ok |-> ok]
    /\ UNCHANGED << scenePc, automated, m_Settings >>
    /\ UNCHANGED << nrdVars, sampleVars, historyVars, tlasVars, testsVars, shutdownVars >>

\* the pass in which the user cancels the dialog, and the rest of LoadScene
OpenFileDialog_Cancel ==
    /\ scenePc = "dialog"
    /\ sceneLog' = [op |-> "cancel", ok |-> isLoaded]
    /\ FinishLoadScene(isLoaded, m_SceneFile)
    /\ UNCHANGED << automated, m_SceneFile, isLoaded, m_Scene >>
    /\ UNCHANGED << nrdVars, sampleVars, historyVars, tlasVars, testsVars, shutdownVars >>

SceneNext ==
    \/ LoadScene
    \/ OpenFileDialog_Select
    \/ OpenFileDialog_Cancel

(***************************************************************************)
(* Sample: CreatePipelines on shader reload, and ~Sample                   *)
(***************************************************************************)
MaxReloads == 2

\* one call per handle of a member vector, in index order
DestroyEach(call, handles) == [k \in 1..Len(handles) |-> [call |-> call, handle |-> handles[k]]]

\* the calls of ~Sample, in order
DestructorCalls(m) ==
    LET RECURSIVE DestroyFrames(_)
        DestroyFrames(frames) ==
            IF frames = << >> THEN << >>
            ELSE DestroyEach("DestroyCommandBuffer", Head(frames).commandBuffers)
                 \o << [call |-> "DestroyDeviceSemaphore", handle |-> Head(frames).deviceSemaphore],
                        [call |-> "DestroyCommandAllocator", handle |-> Head(frames).commandAllocator],
                        [call |-> "DestroyDescriptor", handle |-> Head(frames).globalConstantBufferDescriptor] >>
                 \o DestroyFrames(Tail(frames))
        RECURSIVE DestroyBackBuffers(_)
        DestroyBackBuffers(backBuffers) ==
            IF backBuffers = << >> THEN << >>
            ELSE << [call |-> "DestroyDescriptor", handle |-> Head(backBuffers).colorAttachment],
                    [call |-> "DestroyFrameBuffer", handle |-> Head(backBuffers).frameBufferUI] >>
                 \o DestroyBackBuffers(Tail(backBuffers))
    IN
    << [call |-> "WaitIdle", handle |-> 0],
       [call |-> "m_NRD.Destroy", handle |-> m.m_NRD] >>
    \o DestroyFrames(m.m_Frames)
    \o DestroyBackBuffers(m.m_SwapChainBuffers)
    \o DestroyEach("DestroyTexture", m.m_Textures)
    \o DestroyEach("DestroyBuffer", m.m_Buffers)
    \o DestroyEach("DestroyDescriptor", m.m_Descriptors)
    \o DestroyEach("DestroyPipeline", m.m_Pipelines)
    \o DestroyEach("DestroyPipelineLayout", m.m_PipelineLayouts)
    \o DestroyEach("DestroyAccelerationStructure", m.m_BLASs)
    \o << [call |-> "DestroyDescriptorPool", handle |-> m.m_DescriptorPool],
           [call |-> "DestroyAccelerationStructure", handle |-> m.m_TLAS],
           [call |-> "DestroyQueueSemaphore", handle |-> m.m_BackBufferAcquireSemaphore],
           [call |-> "DestroyQueueSemaphore", handle |-> m.m_BackBufferReleaseSemaphore],
           [call |-> "DestroySwapChain", handle |-> m.m_SwapChain] >>
    \o DestroyEach("FreeMemory", m.m_Memories)
    \o << [call |-> "DestroyDevice", handle |-> m.m_Device] >>

\* variant: the vector is not cleared after its pipelines are destroyed
ClearedPipelines_Kept(pipelines) == pipelines

\* m_Pipelines.clear()
ClearedPipelines(pipelines) == << >>

\* the sample after Initialize: every object it created, and the members that hold them
ShutdownInit ==
    /\ objects =
      << "Device", "QueueSemaphore", "QueueSemaphore", "Denoiser", "SwapChain",
         "Descriptor", "FrameBuffer", "Descriptor", "FrameBuffer", "DeviceSemaphore",
         "CommandAllocator", "CommandBuffer", "CommandBuffer", "DeviceSemaphore", "CommandAllocator",
         "CommandBuffer", "CommandBuffer", "Texture", "Texture", "Buffer",
         "Buffer", "Memory", "Memory", "Descriptor", "Descriptor",
         "Descriptor", "Descriptor", "Descriptor", "PipelineLayout", "Pipeline",
         "PipelineLayout", "Pipeline", "PipelineLayout", "Pipeline", "PipelineLayout",
         "Pipeline", "AccelerationStructure", "Memory", "AccelerationStructure", "Memory",
         "Descriptor", "DescriptorPool" >>
    /\ members = [m_Device |-> 1, m_BackBufferAcquireSemaphore |-> 2, m_BackBufferReleaseSemaphore |-> 3,
                  m_NRD |-> 4, m_SwapChain |-> 5,
                  m_SwapChainBuffers |-> << [colorAttachment |-> 6, frameBufferUI |-> 7], [colorAttachment |-> 8, frameBufferUI |-> 9] >>,
                  m_Frames |->
                   << [commandBuffers |-> << 12, 13 >>, deviceSemaphore |-> 10, commandAllocator |-> 11, globalConstantBufferDescriptor |-> 24],
                      [commandBuffers |-> << 16, 17 >>, deviceSemaphore |-> 14, commandAllocator |-> 15, globalConstantBufferDescriptor |-> 25] >>,
                  m_Textures |-> << 18, 19 >>, m_Buffers |-> << 20, 21 >>, m_Memories |-> << 22, 23, 38, 40 >>,
                  m_Descriptors |-> << 26, 27, 28, 41 >>,
                  m_PipelineLayouts |-> << 29, 31, 33, 35 >>, m_Pipelines |-> << 30, 32, 34, 36 >>,
                  m_BLASs |-> << 37 >>, m_TLAS |-> 39, m_DescriptorPool |-> 42,
                  m_DescriptorSets |-> DescriptorSet,
                  m_ShaderEntries |-> << "Raytracing00_rgen", "Raytracing01_rgen", "Raytracing10_rgen",
                                         "Raytracing11_rgen", "Main_rmiss", "Main_rhit", "total size" >>]
    /\ destroyLog = << >>
    /\ pipelineLayoutOf = (30 :> 29) @@ (32 :> 31) @@ (34 :> 33) @@ (36 :> 35)
    /\ shutdownPc = 0

\* CreatePipelines when "Reload shaders" is pressed: the old pipelines are destroyed and
\* the vector cleared, then four pipeline layouts and four pipelines are created
CreatePipelines ==
    LET old == members.m_Pipelines
        n == Len(objects)
        kept == ClearedPipelines(old)
    IN /\ shutdownPc = 0
       /\ Len(members.m_PipelineLayouts) < 4 * (MaxReloads + 1)
       /\ destroyLog' = IF old = << >> THEN destroyLog
                        ELSE destroyLog \o << [call |-> "WaitIdle", handle |-> 0] >>
                                        \o DestroyEach("DestroyPipeline", old)
       /\ objects' = objects \o [k \in 1..8 |-> IF k % 2 = 1 THEN "PipelineLayout" ELSE "Pipeline"]
       /\ members' = [members EXCEPT
                          !.m_PipelineLayouts = @ \o [k \in 1..4 |-> n + 2 * k - 1],
                          !.m_Pipelines = kept \o [k \in 1..4 |-> n + 2 * k],
                          !.m_ShaderEntries =
                              @ \o << "Raytracing00_rgen", "Raytracing01_rgen", "Raytracing10_rgen",
                                      "Raytracing11_rgen", "Main_rmiss", "Main_rhit", "total size" >>]
       /\ pipelineLayoutOf' =
             [h \in DOMAIN pipelineLayoutOf \cup { n + 2 * k : k \in 1..4 } |->
                 IF h \in DOMAIN pipelineLayoutOf THEN pipelineLayoutOf[h] ELSE h - 1]
       /\ UNCHANGED shutdownPc
       /\ UNCHANGED << nrdVars, sampleVars, m_Settings, historyVars, tlasVars, testsVars, sceneVars >>

\* ~Sample, one call at a time
Sample_Destructor ==
    /\ shutdownPc < Len(DestructorCalls(members))
    /\ destroyLog' = Append(destroyLog, DestructorCalls(members)[shutdownPc + 1])
    /\ shutdownPc' = shutdownPc + 1
    /\ UNCHANGED << objects, members, pipelineLayoutOf >>
    /\ UNCHANGED << nrdVars, sampleVars, m_Settings, historyVars, tlasVars, testsVars, sceneVars >>

ShutdownNext ==
    \/ CreatePipelines
    \/ Sample_Destructor

(***************************************************************************)
(* Specifications                                                          *)
(***************************************************************************)
\* the scene of the frame loop: every instance opaque and at rest
TlasQuiet ==
    TlasInitWith([k \in 1..MaxInstances |->
                     [isOff |-> FALSE, isEmissive |-> FALSE, isTransparent |-> FALSE]],
                 {}, << 0, 0, 0 >>)

\* the sample before Initialize calls LoadScene, started by hand on the default scene file
SceneQuiet == SceneInitWith(FALSE, << "S", "h", "a", "d", "e", "r", "B", "a", "l", "l", "s", "/", "a" >>)

AppInit ==
    /\ m_Settings = Settings
    /\ HistoryInit
    /\ TlasQuiet
    /\ TestsInitWith(<< >>)
    /\ SceneQuiet
    /\ ShutdownInit

Init == NrdInit /\ SampleInit /\ AppInit
Next == NrdNext \/ SampleNext
Spec == Init /\ [][Next]_vars

\* the denoiser under an arbitrary caller
SpecNrd == Init /\ [][NrdNext]_vars

\* the sample creates its denoiser with every method requested
InitSample == NrdInitWith(Methods) /\ SampleInit /\ AppInit

\* the sample's frame loop
SpecSample == InitSample /\ [][SampleNext]_vars

\* the settings window and the history reset, frame after frame
SpecHistory == InitSample /\ [][HistoryNext]_vars

\* the parameters the ray tracer and the denoiser share, frame after frame
SpecDenoise == InitSample /\ [][DenoiseNext]_vars

\* the top-level acceleration structure built for any scene, camera and options
InitTlas ==
    /\ NrdInitWith(Methods) /\ SampleInit /\ HistoryInit /\ TestsInitWith(<< >>) /\ SceneQuiet
    /\ ShutdownInit
    /\ \E e \in BOOLEAN, o \in BOOLEAN, a \in BOOLEAN :
          m_Settings = [Settings EXCEPT !.emission = e, !.emissiveObjects = o, !.animatedObjects = a,
                                        !.animatedObjectNum = AnimatedInstanceNum]
    /\ \E materials \in [(m_DefaultInstancesOffset + 1)..MaxInstances -> Materials],
          moving \in { {}, {m_DefaultInstancesOffset + 1} },
          cameraPosition \in CameraPositions :
            TlasInitWith(materials, moving, cameraPosition)
SpecTlas == InitTlas /\ [][TlasNext]_vars

\* the TESTS panel over the frames of one session; tests.bin does not exist yet, or
\* holds a record of an earlier session
InitTests ==
    /\ NrdInitWith(Methods) /\ SampleInit /\ HistoryInit /\ TlasQuiet /\ SceneQuiet
    /\ ShutdownInit
    /\ m_Settings = Settings
    /\ \E file \in { << >>, << TestItem(Settings, [m_GlobalPosition |-> << 5, -3, 2 >>]) >> } :
          TestsInitWith(file)
SpecTests == InitTests /\ [][TestsNext]_vars

\* LoadScene for every command line and every use of the file-open dialog
InitLoadScene ==
    /\ NrdInitWith(Methods) /\ SampleInit /\ HistoryInit /\ TlasQuiet /\ TestsInitWith(<< >>)
    /\ ShutdownInit
    /\ m_Settings = Settings
    /\ \E isAutomated \in BOOLEAN, sceneFile \in ScenePaths : SceneInitWith(isAutomated, sceneFile)
SpecLoadScene == InitLoadScene /\ [][SceneNext]_vars

\* shader reloads while the sample runs, then its destruction
SpecShutdown == InitSample /\ [][ShutdownNext]_vars

(***************************************************************************)
(* Properties                                                              *)
(***************************************************************************)
ReblurDispatches == { k \in DOMAIN dispatches : dispatches[k].method = REBLUR }

IsDispatched(name) == \E k \in ReblurDispatches : dispatches[k].name = name

\* the "after reconstruction" variant of Temporal accumulation is used only together
\* with a dispatched Hit distance reconstruction
AfterReconstructionHasReconstruction ==
    \A k \in ReblurDispatches :
        (dispatches[k].name = "Temporal accumulation" /\ dispatches[k].permutation % 2 = 1)
            => IsDispatched("Hit distance reconstruction")

\* C1: in a frame's dispatch list of the REBLUR method in which the "after
\* reconstruction" accumulation comes with a reconstruction pass, every transient
\* slot a pass reads was written by an earlier pass of the same list.
C1_TransientReadsAreWritten ==
    AfterReconstructionHasReconstruction =>
        \A k \in ReblurDispatches :
            \A r \in Range(dispatches[k].inputs) \cap TransientSlots :
                \E j \in ReblurDispatches : j < k /\ r \in Range(dispatches[j].outputs)

C1_Witness ==
    /\ AfterReconstructionHasReconstruction
    /\ \E k \in ReblurDispatches :
          /\ dispatches[k].name = "Temporal accumulation"
          /\ DIFF_TEMP1 \in Range(dispatches[k].inputs)
          /\ SPEC_TEMP1 \in Range(dispatches[k].inputs)
    /\ IsDispatched("Validation")

\* C2: in every frame Temporal accumulation reads exactly one tracking half and
\* writes the other one; the half read in a frame is the half written in the frame
\* before; frames an even number apart have the same read/write assignment.
C2_TrackingPairAlternates ==
    /\ \A f \in DOMAIN pingPongLog :
          /\ Cardinality(pingPongLog[f].read) = 1
          /\ Cardinality(pingPongLog[f].write) = 1
          /\ pingPongLog[f].read # pingPongLog[f].write
    /\ \A f \in DOMAIN pingPongLog :
          (f + 1) \in DOMAIN pingPongLog => pingPongLog[f + 1].read = pingPongLog[f].write
    /\ \A f, g \in DOMAIN pingPongLog :
          (g - f) % 2 = 0 => pingPongLog[f] = pingPongLog[g]

C2_Witness ==
    /\ Len(pingPongLog) >= 3
    /\ pingPongLog[1] # pingPongLog[2]
    /\ pingPongLog[1] = pingPongLog[3]

\* the declared pass behind a dispatch
DeclaredPass(d) == MethodPasses(d.method)[d.passIndex]

\* positions of the permutation-dependent inputs of Temporal accumulation
MixInput == 8
DiffConfidenceInput == 9
SpecConfidenceInput == 10
DiffHitDistInput == 11
SpecHitDistInput == 12
PermutedInputs == { MixInput, DiffConfidenceInput, SpecConfidenceInput, DiffHitDistInput, SpecHitDistInput }

\* the Temporal accumulation passes of the declared list
DeclaredTemporalAccumulation ==
    { p \in Range(MethodPasses(REBLUR)) : p.name = "Temporal accumulation" }

\* C3: the Temporal accumulation pass of permutation i binds the disocclusion
\* threshold mix iff bit 2 of i is set, both confidence inputs iff bit 1 is set,
\* the reconstructed hit distances iff bit 0 is set (the dummy, resp. the raw
\* inputs, otherwise); all other inputs and all outputs are those of every other
\* permutation.
C3_TemporalAccumulationInputs ==
    \A k \in ReblurDispatches :
        dispatches[k].name = "Temporal accumulation" =>
            LET p == DeclaredPass(dispatches[k])
                i == p.permutation
                bit2 == (i \div 4) % 2 = 1
                bit1 == (i \div 2) % 2 = 1
                bit0 == i % 2 = 1
            IN /\ p.inputs[MixInput] =
                    Res(IF bit2 THEN "IN_DISOCCLUSION_THRESHOLD_MIX" ELSE REBLUR_DUMMY)
               /\ p.inputs[DiffConfidenceInput] =
                    Res(IF bit1 THEN "IN_DIFF_CONFIDENCE" ELSE REBLUR_DUMMY)
               /\ p.inputs[SpecConfidenceInput] =
                    Res(IF bit1 THEN "IN_SPEC_CONFIDENCE" ELSE REBLUR_DUMMY)
               /\ p.inputs[DiffHitDistInput] =
                    Res(IF bit0 THEN "Transient::DIFF_TMP1" ELSE "IN_DIFF_HITDIST")
               /\ p.inputs[SpecHitDistInput] =
                    Res(IF bit0 THEN "Transient::SPEC_TMP1" ELSE "IN_SPEC_HITDIST")
               /\ \A q \in DeclaredTemporalAccumulation :
                     /\ Len(q.inputs) = Len(p.inputs)
                     /\ \A n \in DOMAIN p.inputs \ PermutedInputs : q.inputs[n] = p.inputs[n]
                     /\ q.outputs = p.outputs

C3_Witness ==
    \E k \in ReblurDispatches :
        /\ dispatches[k].name = "Temporal accumulation"
        /\ dispatches[k].permutation = 5
        /\ dispatches[k].inputs[MixInput] = "IN_DISOCCLUSION_THRESHOLD_MIX"
        /\ dispatches[k].inputs[DiffConfidenceInput] = REBLUR_DUMMY
        /\ dispatches[k].inputs[DiffHitDistInput] = "Transient::DIFF_TMP1"

DeclaredNames == [k \in DOMAIN MethodPasses(REBLUR) |-> MethodPasses(REBLUR)[k].name]

Repeat(name, n) == [k \in 1..n |-> name]

\* C4: the passes are declared in the order Classify tiles, Hit distance
\* reconstruction (every permutation), Temporal accumulation (every permutation),
\* History fix, Blur, Post-blur, Split screen, Validation; a dispatched Split screen
\* writes exactly OUT_DIFF_HITDIST and OUT_SPEC_HITDIST, after the Post-blur of the
\* same frame wrote them.
C4_DeclaredOrderAndSplitScreen ==
    /\ DeclaredNames =
          << "Classify tiles" >>
          \o Repeat("Hit distance reconstruction", REBLUR_OCCLUSION_HITDIST_RECONSTRUCTION_PERMUTATION_NUM)
          \o Repeat("Temporal accumulation", REBLUR_OCCLUSION_TEMPORAL_ACCUMULATION_PERMUTATION_NUM)
          \o << "History fix", "Blur", "Post-blur", "Split screen", "Validation" >>
    /\ \A k \in ReblurDispatches :
          dispatches[k].name = "Split screen" =>
              /\ Range(dispatches[k].outputs) = { "OUT_DIFF_HITDIST", "OUT_SPEC_HITDIST" }
              /\ \E j \in ReblurDispatches :
                    /\ j < k
                    /\ dispatches[j].name = "Post-blur"
                    /\ { "OUT_DIFF_HITDIST", "OUT_SPEC_HITDIST" } \subseteq Range(dispatches[j].outputs)

C4_Witness ==
    /\ IsDispatched("Split screen")
    /\ IsDispatched("Post-blur")
    /\ IsDispatched("Hit distance reconstruction")
    /\ nrdFrame >= 2

\* the settings in force for a method, as its caller knows them
Effective(m) == IF requested[m] = {} THEN {DefaultSettings(m)} ELSE requested[m]

SameUpToPingPong(a, b) == a = b \/ { a, b } = TrackingPair

Changing(b) ==
    { k \in DOMAIN b.states :
        \/ b.before[b.states[k].texture].nextAccess # b.states[k].nextAccess
        \/ b.before[b.states[k].texture].nextLayout # b.states[k].nextLayout }

\* the CPU stands right after the BuildOptimizedTransitions call lastBuild records
JustBuilt ==
    /\ lastBuild # << >>
    /\ \/ lastBuild[1].stage = "Composition" /\ pc = "Temporal"
       \/ lastBuild[1].stage = "Temporal" /\ pc = "Copy"

\* C9: BuildOptimizedTransitions emits no transition for a listed texture already
\* in the requested (access, layout) state and exactly one for any other; after the
\* call every listed texture is recorded in its requested state; the number of
\* transitions stays within transitionMaxNum.
C9_OptimizedTransitions ==
    JustBuilt =>
        LET b == lastBuild[1] IN
        /\ b.n = Cardinality(Changing(b))
        /\ Len(b.transitions) = b.n
        /\ \A k \in DOMAIN b.states :
              Cardinality({ n \in DOMAIN b.transitions :
                              b.transitions[n].texture = b.states[k].texture })
                  = IF k \in Changing(b) THEN 1 ELSE 0
        /\ \A k \in DOMAIN b.states :
              /\ m_TextureStates[b.states[k].texture].nextAccess = b.states[k].nextAccess
              /\ m_TextureStates[b.states[k].texture].nextLayout = b.states[k].nextLayout
        /\ b.n <= b.transitionMaxNum
        /\ ~b.assertFailed

C9_Witness ==
    /\ JustBuilt
    /\ lastBuild[1].stage = "Temporal"
    /\ lastBuild[1].n > 0
    /\ lastBuild[1].n < Len(lastBuild[1].states)
    /\ frameIndex >= 1

\* C10: while the CPU resets and re-records a frame context, that context is
\* frameIndex mod N and none of its earlier submissions is still pending on the
\* queue.
C10_ContextReuseWaitsForGpu ==
    \A c \in recording :
        /\ c = frameIndex % BUFFERED_FRAME_MAX_NUM
        /\ \A n \in DOMAIN gpuQueue : gpuQueue[n] # c

C10_Witness ==
    /\ recording # {}
    /\ frameIndex >= BUFFERED_FRAME_MAX_NUM
    /\ gpuQueue # << >>
    /\ pc = "Composition"

\* the history textures the temporal pass of a logged frame reads and writes
TaaHistoryTextures == { "TaaHistory", "TaaHistoryPrev" }
TaaRead(e) == Range(e.bound.textures) \cap TaaHistoryTextures
TaaWritten(e) == Range(e.bound.storageTextures) \cap TaaHistoryTextures

\* C11: the temporal pass ping-pongs TaaHistory and TaaHistoryPrev by frame parity: even
\* frames bind Temporal1a, read TaaHistoryPrev and write TaaHistory, odd frames bind
\* Temporal1b, read TaaHistory and write TaaHistoryPrev; the texture read is never the
\* texture written, the tracked states after the barriers match the bound set, and frame
\* f+1 reads what frame f wrote.
C11_TaaPingPong ==
    /\ \A k \in DOMAIN temporalLog :
          LET e == temporalLog[k]
              isEven == e.frameIndex % 2 = 0
          IN /\ e.frameIndex = k - 1
             /\ e.descriptorSet = (IF isEven THEN "Temporal1a" ELSE "Temporal1b")
             /\ TaaRead(e) = (IF isEven THEN {"TaaHistoryPrev"} ELSE {"TaaHistory"})
             /\ TaaWritten(e) = (IF isEven THEN {"TaaHistory"} ELSE {"TaaHistoryPrev"})
             /\ TaaRead(e) \cap TaaWritten(e) = {}
             /\ Range(e.bound.textures) \subseteq e.shaderResource
             /\ Range(e.bound.storageTextures) \subseteq e.storage
    /\ \A k \in DOMAIN temporalLog :
          k + 1 \in DOMAIN temporalLog => TaaRead(temporalLog[k + 1]) = TaaWritten(temporalLog[k])

\* three consecutive frames have run their temporal pass
C11_Witness ==
    /\ Len(temporalLog) >= 3
    /\ temporalLog[1].descriptorSet = "Temporal1a"
    /\ temporalLog[2].descriptorSet = "Temporal1b"
    /\ temporalLog[3].descriptorSet = "Temporal1a"

\* the conditions under which RenderFrame drops the accumulated history
HistoryResetRequested ==
    \/ m_PrevSettings.reference # m_Settings.reference
    \/ (m_PrevSettings.onScreen >= 11 /\ m_Settings.onScreen <= 4)
    \/ (m_PrevSettings.onScreen <= 4 /\ m_Settings.onScreen >= 11)
    \/ m_IsActive # m_PrevIsActive

\* C12: a frame whose reference flag differs from the settings captured by its
\* PrepareFrame, or whose onScreen moved between the range <= 4 and the range >= 11, or
\* whose activity state differs from the previous frame's, pushes a reset factor of 0 and
\* a maxAccumulatedFrameNum of 0 to both methods; a frame with none of these and an
\* unchanged sun elevation pushes the configured diffuse and specular caps.
C12_HistoryReset ==
    [][ (prepared /\ ~prepared') =>
          /\ HistoryResetRequested =>
                pushed' = {[resetHistoryFactor |-> 0, diffuse |-> 0, specular |-> 0]}
          /\ (~HistoryResetRequested /\ m_PrevSettings.sunElevation = m_Settings.sunElevation) =>
                pushed' = {[resetHistoryFactor |-> FX,
                            diffuse |-> m_Settings.diffMaxHistoryFrameNum,
                            specular |-> m_Settings.specMaxHistoryFrameNum]} ]_vars

\* a frame that toggled the reference mode has pushed zero caps although both configured
\* caps are positive
C12_Witness ==
    /\ ~prepared
    /\ m_PrevSettings.reference # m_Settings.reference
    /\ m_Settings.diffMaxHistoryFrameNum > 0 /\ m_Settings.specMaxHistoryFrameNum > 0
    /\ pushed = {[resetHistoryFactor |-> 0, diffuse |-> 0, specular |-> 0]}

\* bitwise & of two uint32_t, as the shaders unpack the instance id
RECURSIVE BitAnd(_, _)
BitAnd(a, b) ==
    IF a = 0 \/ b = 0 THEN 0
    ELSE (IF a % 2 = 1 /\ b % 2 = 1 THEN 1 ELSE 0) + 2 * BitAnd(a \div 2, b \div 2)

ClassificationFlags ==
    { FLAG_OPAQUE_OR_ALPHA_OPAQUE, FLAG_TRANSPARENT, FLAG_EMISSION, FLAG_FORCED_EMISSION }

\* the material of the scene instance a written entry came from
MaterialOf(e) == instances[e.instance + 1].material

\* C13: an instance whose material is emissive is written with FLAG_OPAQUE_OR_ALPHA_OPAQUE
\* when the emission setting is off and with FLAG_EMISSION when it is on, whatever its
\* transparency and whatever the emissive-objects option.
C13_EmissiveClassification ==
    \A k \in DOMAIN tlasData :
        MaterialOf(tlasData[k]).isEmissive =>
            tlasData[k].mask = (IF m_Settings.emission THEN FLAG_EMISSION ELSE FLAG_OPAQUE_OR_ALPHA_OPAQUE)

\* an emissive and transparent animated instance was written as opaque with emission off
\* and the emissive-objects option on
C13_Witness ==
    \E k \in DOMAIN tlasData :
        /\ MaterialOf(tlasData[k]).isEmissive /\ MaterialOf(tlasData[k]).isTransparent
        /\ tlasData[k].instance > Len(instances) - AnimatedInstanceNum
        /\ m_Settings.emissiveObjects /\ ~m_Settings.emission
        /\ tlasData[k].mask = FLAG_OPAQUE_OR_ALPHA_OPAQUE

\* C14: the instance id of every written entry is index | (flags << 20) with index its
\* position among the written entries and flags exactly one of 0x01, 0x02, 0x04, 0x08;
\* id & 0xFFFFF and id >> 20 give index and flags back, the mask equals flags, and the
\* written entries are numbered 0, 1, 2, ... in scene order although switched-off
\* materials are skipped. The packing also round-trips at the largest index, 2^20 - 1.
C14_InstanceIdPacking ==
    /\ \A k \in DOMAIN tlasData :
          LET id == tlasData[k].instanceId IN
          /\ tlasData[k].mask \in ClassificationFlags
          /\ id = (k - 1) + tlasData[k].mask * 2 ^ FLAG_FIRST_BIT
          /\ BitAnd(id, INSTANCE_ID_MASK) = k - 1
          /\ id \div 2 ^ FLAG_FIRST_BIT = tlasData[k].mask
          /\ id < 2 ^ 24
          /\ ~MaterialOf(tlasData[k]).isOff
          /\ k > 1 => tlasData[k - 1].instance < tlasData[k].instance
    /\ \A index \in { 0, 1, INSTANCE_ID_MASK - 1, INSTANCE_ID_MASK }, flags \in ClassificationFlags :
          LET id == InstanceIdAndFlags(index, flags) IN
          /\ BitAnd(id, INSTANCE_ID_MASK) = index
          /\ id \div 2 ^ FLAG_FIRST_BIT = flags
          /\ id < 2 ^ 24

\* an instance was written after a switched-off one was skipped, and got the next index
C14_Witness ==
    \E k \in DOMAIN tlasData :
        /\ k >= 2
        /\ tlasData[k].instance > tlasData[k - 1].instance + 1
        /\ instances[tlasData[k].instance].material.isOff
        /\ BitAnd(tlasData[k].instanceId, INSTANCE_ID_MASK) = k - 1

LoadedJustAdded == testsLog.op = "Load" /\ testsLog.justAdded

\* C15 as stated: loading the record just added restores Settings and camera data equal
\* in every field to those active when Add was pressed, also while camera motion
\* emulation is running.
C15_AddThenLoadRestoresEveryField ==
    LoadedJustAdded => testsLog.restored = testsLog.atAdd

\* C15 as amended: loading the record just added restores the camera data and every
\* Settings field other than motionStartTime as they were when Add was pressed;
\* motionStartTime is restored as -1 when camera motion emulation was running and as 0
\* otherwise.
C15_AddThenLoadRestoresButMotionStart ==
    LoadedJustAdded =>
        /\ testsLog.restored.camera = testsLog.atAdd.camera
        /\ \A f \in DOMAIN Settings \ {"motionStartTime"} :
              testsLog.restored.settings[f] = testsLog.atAdd.settings[f]
        /\ testsLog.restored.settings.motionStartTime
              = (IF testsLog.atAdd.settings.motionStartTime > 0 THEN -1 ELSE 0)

\* Add was pressed while camera motion emulation was running, away from the origin and
\* behind an older record, and the record was then loaded
C15_Witness ==
    /\ LoadedJustAdded
    /\ testsLog.atAdd.settings.motionStartTime > 0
    /\ testsLog.atAdd.camera.m_GlobalPosition # << 0, 0, 0 >>
    /\ testsLog.addedAt >= 2
    /\ testsFile[1] # testsFile[testsLog.addedAt]

\* C16: Delete with record k selected leaves in tests.bin exactly the other records,
\* unchanged and in their order, one record fewer; Add only appends and every other
\* click leaves the file as it was, so no other record is ever lost or reordered.
C16_DeleteOmitsSelected ==
    LET before == testsLog.fileBefore
        k == testsLog.selected
    IN /\ testsLog.op = "Delete" =>
            /\ k \in 1..Len(before)
            /\ Len(testsFile) = Len(before) - 1
            /\ itemNum = Len(testsFile)
            /\ \A j \in 1..Len(testsFile) : testsFile[j] = before[IF j < k THEN j ELSE j + 1]
       /\ testsLog.op = "Add" =>
            /\ Len(testsFile) = Len(before) + 1
            /\ \A j \in 1..Len(before) : testsFile[j] = before[j]
       /\ testsLog.op \notin {"Delete", "Add"} => testsFile = before

\* a record in the middle of three different records was selected and deleted
C16_Witness ==
    /\ testsLog.op = "Delete"
    /\ Len(testsLog.fileBefore) = 3
    /\ testsLog.selected = 2
    /\ testsLog.fileBefore[1] # testsLog.fileBefore[2]
    /\ testsLog.fileBefore[2] # testsLog.fileBefore[3]
    /\ testsFile = << testsLog.fileBefore[1], testsLog.fileBefore[3] >>

\* the values the "ZeroDay" branch assigns that the claim lists
ZeroDayValues ==
    /\ m_Settings.exposure = 100
    /\ m_Settings.emission /\ m_Settings.emissionIntensity = 15000
    /\ m_Settings.roughnessOverride = 7 /\ m_Settings.metalnessOverride = 25
    /\ m_Settings.sunElevation = -90 /\ m_Settings.sunAngularDiameter = 0
    /\ ~m_Settings.checkerboard

ContainsZeroDay == StrStr(m_SceneFile, << "Z", "e", "r", "o", "D", "a", "y" >>)

ContainsEarlierName ==
    \/ StrStr(m_SceneFile, << "B", "i", "s", "t", "r", "o", "I", "n", "t", "e", "r", "i", "o", "r" >>)
    \/ StrStr(m_SceneFile, << "B", "i", "s", "t", "r", "o", "E", "x", "t", "e", "r", "i", "o", "r" >>)
    \/ StrStr(m_SceneFile, << "S", "h", "a", "d", "e", "r", "B", "a", "l", "l", "s" >>)

\* C17 as stated: LoadScene with a scene file path that contains "ZeroDay" ends with the
\* ZeroDay values, whatever else the path contains and whatever was loaded earlier.
C17_ZeroDayPresetsAlways ==
    (scenePc = "loaded" /\ ContainsZeroDay) => ZeroDayValues

\* C17 as amended: LoadScene with a scene file path that contains "ZeroDay" and none of
\* "BistroInterior", "BistroExterior" and "ShaderBalls" ends with the ZeroDay values,
\* whatever scenes were loaded earlier.
C17_ZeroDayPresetsUnlessEarlierName ==
    (scenePc = "loaded" /\ ContainsZeroDay /\ ~ContainsEarlierName) => ZeroDayValues

\* the ZeroDay scene was added after a scene of another preset and the values were set
C17_Witness ==
    /\ scenePc = "loaded" /\ ContainsZeroDay /\ ~ContainsEarlierName
    /\ Len(m_Scene) >= 2
    /\ ScenePreset(m_Scene[1]) = "BistroInterior"
    /\ ZeroDayValues

\* C18: a failed load of the built-in scene always aborts; in automated mode a failed
\* load of the requested scene aborts; otherwise a failed load leaves the file-open
\* prompt up, and LoadScene aborts only on a cancel with no user-selected scene loaded.
\* LoadScene runs inside Initialize, so an abort comes before the first frame.
C18_LoadFailureHandling ==
    /\ (sceneLog.op = "default" /\ ~sceneLog.ok) => scenePc = "aborted"
    /\ (sceneLog.op = "requested") => (automated /\ scenePc = (IF sceneLog.ok THEN "loaded" ELSE "aborted"))
    /\ (sceneLog.op = "select") => (~automated /\ scenePc = "dialog")
    /\ (sceneLog.op = "cancel") => (~automated /\ scenePc = (IF m_Scene = << >> THEN "aborted" ELSE "loaded"))
    /\ scenePc = "aborted" =>
            \/ sceneLog.op = "default" /\ ~sceneLog.ok
            \/ automated /\ sceneLog.op = "requested" /\ ~sceneLog.ok
            \/ ~automated /\ sceneLog.op = "cancel" /\ m_Scene = << >>
    /\ scenePc \in {"Initialize", "dialog", "aborted"} => frameIndex = 0

\* a load failed after a scene had been loaded and the prompt stayed up
C18_Witness ==
    /\ ~automated
    /\ sceneLog.op = "select" /\ ~sceneLog.ok
    /\ m_Scene # << >>
    /\ scenePc = "dialog"

\* the calls that destroyed the object with this handle
DestroyCallsOf(handle) == { k \in DOMAIN destroyLog : destroyLog[k].handle = handle }

ShutdownDone == shutdownPc > 0 /\ shutdownPc = Len(DestructorCalls(members))

\* C20: ~Sample first waits for the device to be idle, then destroys the denoiser, then
\* the sample's other objects, and the device last; no object is ever destroyed twice,
\* and when ~Sample has finished every object the sample created, including the pipelines
\* and pipeline layouts of shader reloads, has been destroyed exactly once.
C20_ShutdownDestroysEverythingOnce ==
    LET first == Len(destroyLog) - shutdownPc + 1 IN
    /\ \A h \in 1..Len(objects) : Cardinality(DestroyCallsOf(h)) <= 1
    /\ \A k \in DOMAIN destroyLog :
          destroyLog[k].call # "WaitIdle" => destroyLog[k].handle \in 1..Len(objects)
    /\ shutdownPc >= 1 => destroyLog[first].call = "WaitIdle"
    /\ shutdownPc >= 2 => destroyLog[first + 1].call = "m_NRD.Destroy"
    /\ \A k \in DOMAIN destroyLog :
          destroyLog[k].call = "DestroyDevice" => (k = Len(destroyLog) /\ ShutdownDone)
    /\ ShutdownDone =>
          /\ destroyLog[Len(destroyLog)].call = "DestroyDevice"
          /\ \A h \in 1..Len(objects) : Cardinality(DestroyCallsOf(h)) = 1
          /\ \A kind \in {"CommandBuffer", "DeviceSemaphore", "QueueSemaphore", "CommandAllocator",
                           "Descriptor", "FrameBuffer", "Texture", "Buffer", "Pipeline",
                           "PipelineLayout", "AccelerationStructure", "DescriptorPool",
                           "SwapChain", "Memory"} :
                \E k \in first + 2 .. Len(destroyLog) - 1 :
                    objects[destroyLog[k].handle] = kind

\* the sample was destroyed after two shader reloads
C20_Witness ==
    /\ ShutdownDone
    /\ Len(members.m_PipelineLayouts) = 12
    /\ Len(members.m_Pipelines) = 4
    /\ \E k \in DOMAIN destroyLog :
          destroyLog[k].call = "DestroyPipeline" /\ k < Len(destroyLog) - shutdownPc + 1

(***************************************************************************)
(* C21: texture states at the dispatches of RenderFrame                    *)
(***************************************************************************)
\* the textures of a descriptor list that own an entry of m_TextureStates
Tracked(list) == Range(list) \cap Textures

\* C21: at every dispatch RenderFrame records (BRDF integration, ray tracing, composition,
\* temporal), every sample texture the bound descriptor sets view as a storage output was
\* last moved to SHADER_RESOURCE_STORAGE / GENERAL and every sample texture they view as a
\* sampled input was last moved to SHADER_RESOURCE, the denoiser recording its own moves in
\* the same state entries; and no barrier RenderFrame issues without a test has equal
\* states before and after.
C21_DispatchStatesAndBarriers ==
    \A k \in DOMAIN dispatchLog :
        LET e == dispatchLog[k] IN
        /\ e.op = "Dispatch" =>
              \A i \in DOMAIN e.sets :
                 LET set == GetDescriptorSet(e.sets[i]) IN
                 /\ \A t \in Tracked(set.storageTextures) :
                       /\ e.states[t].nextAccess = SHADER_RESOURCE_STORAGE
                       /\ e.states[t].nextLayout = GENERAL
                 /\ \A t \in Tracked(set.textures) :
                       /\ e.states[t].nextAccess = SHADER_RESOURCE
                       /\ e.states[t].nextLayout = SHADER_RESOURCE
        /\ e.op = "Barrier" =>
              \A j \in DOMAIN e.transitions :
                 LET b == e.transitions[j].barrier IN
                 b.prevAccess # b.nextAccess \/ b.prevLayout # b.nextLayout

\* the third frame has recorded all its dispatches and barriers after a denoiser run that
\* left some of its inputs writable; the first frame's BRDF integration is covered by the
\* same predicate at frame 0
C21_Witness ==
    /\ frameIndex = 2
    /\ pc = "Submit"
    /\ { dispatchLog[k].stage : k \in DOMAIN dispatchLog }
          = { "Raytracing", "Composition", "Temporal", "Copy", "UI" }
    /\ \E k \in DOMAIN dispatchLog :
          /\ dispatchLog[k].stage = "Composition"
          /\ dispatchLog[k].states["ViewZ"].nextAccess = SHADER_RESOURCE_STORAGE

(***************************************************************************)
(* C22: the history slots are read before they are rewritten               *)
(***************************************************************************)
\* the permanent slots that carry a frame's results to the next frame, each with the pass
\* that refreshes it
HistoryWriter ==
    [x \in { "Permanent::PREV_VIEWZ", "Permanent::PREV_NORMAL_ROUGHNESS",
             "Permanent::PREV_INTERNAL_DATA", "Permanent::DIFF_FAST_HISTORY",
             "Permanent::SPEC_FAST_HISTORY" } |->
        CASE x = "Permanent::PREV_VIEWZ" -> "Blur"
          [] x \in { "Permanent::DIFF_FAST_HISTORY", "Permanent::SPEC_FAST_HISTORY" } -> "History fix"
          [] OTHER -> "Post-blur"]

\* C22: in the pass list of every frame, Temporal accumulation reads the previous-depth,
\* previous-normal/roughness, previous-internal-data and the permanent diffuse and specular
\* fast-history slots before any pass of that frame writes them, and each of these slots
\* is written by exactly one pass of the frame (History fix the fast histories, Blur the
\* previous depth, Post-blur the previous normal/roughness and internal data); so what
\* Temporal accumulation reads in a frame is what the frame before wrote.
C22_HistoryReadBeforeWritten ==
    (alive /\ REBLUR \in included /\ dispatches # << >>) =>
        LET list == dispatches
            reblur == { k \in DOMAIN list : list[k].method = REBLUR }
            ta == { k \in reblur : list[k].name = "Temporal accumulation" }
            Writers(x) == { k \in DOMAIN list : x \in Range(list[k].outputs) }
        IN /\ Cardinality(ta) = 1
           /\ \A x \in DOMAIN HistoryWriter :
                 /\ Cardinality(Writers(x)) = 1
                 /\ \A w \in Writers(x) :
                       /\ list[w].name = HistoryWriter[x]
                       /\ \A k \in ta : x \in Range(list[k].inputs) /\ k < w
           /\ prevDispatches # << >> =>
                 \A x \in DOMAIN HistoryWriter :
                    \E w \in DOMAIN prevDispatches :
                       /\ x \in Range(prevDispatches[w].outputs)
                       /\ \A k \in w + 1 .. Len(prevDispatches) :
                             x \notin Range(prevDispatches[k].outputs)
                       /\ prevDispatches[w].name = HistoryWriter[x]

\* a frame with exchanged ping-pong halves and a non-default Temporal accumulation
\* permutation follows a frame with the same inputs
C22_Witness ==
    /\ alive /\ REBLUR \in included
    /\ nrdFrame >= 2
    /\ prevDispatches # << >>
    /\ \E k \in DOMAIN dispatches :
          /\ dispatches[k].name = "Temporal accumulation"
          /\ dispatches[k].permutation = 5
          /\ "Permanent::PREV_VIEWZ" \in Range(dispatches[k].inputs)
    /\ \E k \in DOMAIN dispatches : dispatches[k].name = "Validation"

(***************************************************************************)
(* C23: gTransparent and the acceleration structure of the same frame      *)
(***************************************************************************)
\* C23: when the rays of a frame are dispatched, the gTransparent value written to the
\* global constant buffer for that frame tells whether the top-level acceleration structure
\* built for that frame holds at least one instance classified transparent.
C23_TransparentMatchesTlas ==
    tlasPc = "Raytracing" =>
        (gTransparent = 1 <=> \E k \in DOMAIN tlasData : tlasData[k].mask = FLAG_TRANSPARENT)

\* the structure of a frame holds a transparent instance and the constants of the frame
\* say so: a frame after the first, over an unchanged scene
C23_Witness ==
    /\ tlasPc = "Raytracing"
    /\ gTransparent = 1
    /\ \E k \in DOMAIN tlasData : tlasData[k].mask = FLAG_TRANSPARENT

(***************************************************************************)
(* C24: the object registries after Initialize                             *)
(***************************************************************************)
\* the member vectors indexed by the sample's enums
Registries ==
    { "m_Textures", "m_Buffers", "m_Pipelines", "m_PipelineLayouts", "m_Descriptors",
      "m_DescriptorSets", "m_ShaderEntries" }

\* C24: after Initialize has returned, no registry of the sample (textures, buffers,
\* pipelines, pipeline layouts, descriptors, descriptor sets, shader-table entries) grows,
\* shrinks or loses an entry in any frame, a frame with 'Reload shaders' pressed included,
\* and for every Pipeline value p the layout GetPipelineLayout(p) returns is the layout
\* the pipeline Get(p) returns was created with.
C24_RegistriesFixedAfterInitialize ==
    [][(shutdownPc = 0 /\ shutdownPc' = 0) =>
          /\ \A r \in Registries : members'[r] = members[r]
          /\ \A p \in DOMAIN members'.m_Pipelines :
                pipelineLayoutOf'[members'.m_Pipelines[p]] = members'.m_PipelineLayouts[p]]_vars

\* a frame with 'Reload shaders' pressed has run: the pipelines were rebuilt
C24_Witness ==
    /\ shutdownPc = 0
    /\ \E k \in DOMAIN destroyLog : destroyLog[k].call = "DestroyPipeline"
    /\ Len(members.m_Pipelines) = 4

(***************************************************************************)
(* C25, C26: the denoiser calls of a frame and the parameters they carry   *)
(***************************************************************************)
SetMethodSettingsCalls == { k \in DOMAIN nrdCalls : nrdCalls[k].call = "SetMethodSettings" }

\* C25: in every RenderFrame, SetMethodSettings is called exactly once for each of the
\* three methods the denoiser was created with (DIFFUSE, SPECULAR, SHADOW) and for no other
\* method, and all three calls come before the single Denoise call of the frame.
C25_SettingsOncePerMethodBeforeDenoise ==
    nrdCalls # << >> =>
        /\ \A m \in Range(methodDescs) :
              Cardinality({ k \in SetMethodSettingsCalls : nrdCalls[k].method = m }) = 1
        /\ \A k \in SetMethodSettingsCalls : nrdCalls[k].method \in Range(methodDescs)
        /\ Cardinality({ k \in DOMAIN nrdCalls : nrdCalls[k].call = "Denoise" }) = 1
        /\ \A k \in SetMethodSettingsCalls, d \in DOMAIN nrdCalls :
              nrdCalls[d].call = "Denoise" => k < d

\* two frames have been rendered, the second after a change of the settings
C25_Witness ==
    /\ ~prepared
    /\ Len(nrdCalls) = 4
    /\ m_PrevSettings # m_Settings
    /\ m_PrevSettings # Settings

\* the settings the last frame pushed to a method
PushedTo(method) ==
    { nrdCalls[k].settings : k \in { j \in SetMethodSettingsCalls : nrdCalls[j].method = method } }

\* C26: in every rendered frame the ray tracer and the denoiser use the same parameters:
\* the checkerboard bit of the selected raygen permutation equals the checkerboard flag of
\* the diffuse and of the specular settings, the trimming parameters of the global
\* constants equal the specular lobeTrimmingParameters, and gDiffHitDistScale and
\* gSpecHitDistScale equal the first hit distance parameter of the diffuse and of the
\* specular settings.
C26_RayTracerAndDenoiserAgree ==
    \A rt \in rayTracing :
        /\ PushedTo("DIFFUSE") # {} /\ PushedTo("SPECULAR") # {}
        /\ \A diffuse \in PushedTo("DIFFUSE") :
              /\ diffuse.checkerboard = ((rt.raygenIndex \div 2) % 2 = 1)
              /\ diffuse.hitDistanceParameters[1] = rt.gDiffHitDistScale
        /\ \A specular \in PushedTo("SPECULAR") :
              /\ specular.checkerboard = ((rt.raygenIndex \div 2) % 2 = 1)
              /\ specular.hitDistanceParameters[1] = rt.gSpecHitDistScale
              /\ specular.lobeTrimmingParameters = rt.gTrimmingParams

\* a frame was traced without checkerboarding, with a second specular bounce, in reference
\* mode and with hit distance scales other than the defaults
C26_Witness ==
    /\ ~prepared
    /\ \E rt \in rayTracing :
          /\ rt.raygenIndex = 1
          /\ rt.gTrimmingParams = << 10000, 0, 1 >>
          /\ rt.gDiffHitDistScale = 10
          /\ rt.gSpecHitDistScale = 7

(***************************************************************************)
(* C27: m_SceneFile when LoadScene returns                                 *)
(***************************************************************************)
\* C27: when LoadScene returns, m_SceneFile (the path the presets are matched against and
\* tests.bin is located with) is the path of a scene file whose load succeeded; a
\* selection whose load failed never becomes m_SceneFile, whatever the sequence of
\* successful and failed selections in the dialog loop.
C27_SceneFileWasLoaded ==
    /\ scenePc = "loaded" => m_SceneFile \in Range(m_Scene)
    /\ (scenePc = "dialog" /\ sceneLog.op = "select" /\ ~sceneLog.ok /\ m_Scene # << >>) =>
          m_SceneFile \in Range(m_Scene)

\* LoadScene has returned from the dialog loop after a failed and two successful
\* selections, with the path of a loaded scene in m_SceneFile
C27_Witness ==
    /\ scenePc = "loaded"
    /\ ~automated
    /\ Len(m_Scene) = 2
    /\ m_SceneFile = m_Scene[2]
    /\ m_SceneFile # m_Scene[1]

(***************************************************************************)
(* C28: the pools of the REBLUR diffuse+specular occlusion method          *)
(***************************************************************************)
\* the slots of the Transient enumeration with one of the names
TransientNamed(names) == { i \in DOMAIN Transient : Transient[i] \in names }

\* the textures of a pool with a format and a downsample factor
PoolTextures(pool, format, factor) ==
    { i \in DOMAIN pool : pool[i].format = format /\ pool[i].downsampleFactor = factor }

TileSlots == TransientNamed({"Transient::TILES"})
DiffWorkingSlots == TransientNamed({"Transient::DIFF_TMP1", "Transient::DIFF_TMP2"})
SpecWorkingSlots == TransientNamed({"Transient::SPEC_TMP1", "Transient::SPEC_TMP2"})
FastHistorySlots == TransientNamed({"Transient::DIFF_FAST_HISTORY", "Transient::SPEC_FAST_HISTORY"})
DataSlots == TransientNamed({"Transient::DATA1"})

\* one tile buffer, two diffuse and two specular working buffers, one fast history
\* per signal, and as many textures in each pool as slots enumerated for it
ListedBuffers(d) ==
    /\ Len(d.permanentPool) = Len(Permanent)
    /\ Len(d.transientPool) = Len(Transient)
    /\ Cardinality(TileSlots) = 1
    /\ PoolTextures(d.transientPool, "R8_UNORM", 16) = TileSlots
    /\ Cardinality(DiffWorkingSlots) = 2 /\ Cardinality(SpecWorkingSlots) = 2
    /\ PoolTextures(d.transientPool, "REBLUR_FORMAT_OCCLUSION", 1) = DiffWorkingSlots \cup SpecWorkingSlots
    /\ Cardinality(FastHistorySlots) = 2
    /\ PoolTextures(d.transientPool, "REBLUR_FORMAT_OCCLUSION_FAST_HISTORY", 1) = FastHistorySlots

ReblurDescs == { d \in UNION denoiserDesc : d.method = REBLUR }

\* C28 as stated: the transient pool of the REBLUR diffuse+specular occlusion builder
\* holds one tile buffer, two diffuse working buffers, two specular working buffers
\* and one fast-history buffer per signal and nothing else, and each pool has as
\* many textures as slots.
C28_TransientPoolExactlyListed ==
    \A d \in ReblurDescs :
        /\ ListedBuffers(d)
        /\ DOMAIN d.transientPool =
              TileSlots \cup DiffWorkingSlots \cup SpecWorkingSlots \cup FastHistorySlots

\* C28: the transient pool of the REBLUR diffuse+specular occlusion builder holds one
\* full-resolution RG8_UNORM data buffer (DATA1), one tile buffer, two diffuse working
\* buffers, two specular working buffers and one fast-history buffer per signal and
\* nothing else, and each pool has as many textures as slots enumerated for it.
C28_TransientPoolWithData ==
    \A d \in ReblurDescs :
        /\ ListedBuffers(d)
        /\ Cardinality(DataSlots) = 1
        /\ PoolTextures(d.transientPool, "RG8_UNORM", 1) = DataSlots
        /\ DOMAIN d.transientPool =
              DataSlots \cup TileSlots \cup DiffWorkingSlots \cup SpecWorkingSlots
                 \cup FastHistorySlots

C28_Witness ==
    /\ alive /\ lastCall.op = "GetDenoiserDesc"
    /\ \E d \in ReblurDescs : Len(d.transientPool) = 8 /\ Len(d.permanentPool) = 7

(***************************************************************************)
(* C29: no pass reads and writes the same resource                         *)
(***************************************************************************)
\* the resources a declared pass binds as inputs and as outputs under a parity;
\* the dummy placeholder is no resource
BoundInputs(p, swap) == Range(ResolveAll(p.inputs, swap)) \ {REBLUR_DUMMY}
BoundOutputs(p, swap) == Range(ResolveAll(p.outputs, swap)) \ {REBLUR_DUMMY}

\* C29: no pass of the REBLUR diffuse+specular occlusion method declares the same
\* resource (caller-bound texture, permanent slot or transient slot) both as an input
\* and as an output: not in any declared permutation under either ping-pong parity,
\* and so not in any pass of a dispatched list.
C29_NoPassReadsItsOutput ==
    /\ REBLUR \in included =>
          \A k \in DOMAIN MethodPasses(REBLUR) : \A swap \in BOOLEAN :
              BoundInputs(MethodPasses(REBLUR)[k], swap)
                 \cap BoundOutputs(MethodPasses(REBLUR)[k], swap) = {}
    /\ \A k \in DOMAIN dispatches :
          dispatches[k].method = REBLUR =>
              (Range(dispatches[k].inputs) \ {REBLUR_DUMMY}) \cap Range(dispatches[k].outputs) = {}

\* a list dispatched with the halves exchanged that holds a reconstruction pass, a
\* Temporal accumulation reading the reconstructed temporaries, and History fix
C29_Witness ==
    /\ alive /\ REBLUR \in included /\ lastCall.op = "GetComputeDispatches"
    /\ \E k \in DOMAIN pingPongLog : k > 1 /\ pingPongLog[k] # pingPongLog[1]
    /\ \E k \in DOMAIN dispatches : dispatches[k].name = "Hit distance reconstruction"
    /\ \E k \in DOMAIN dispatches :
          /\ dispatches[k].name = "Temporal accumulation"
          /\ DIFF_TEMP1 \in Range(dispatches[k].inputs)
          /\ "Permanent::SPEC_HITDIST_FOR_TRACKING_PONG" \in Range(dispatches[k].inputs)
    /\ \E k \in DOMAIN dispatches : dispatches[k].name = "History fix"

(***************************************************************************)
(* C30: the counters of the TESTS panel                                    *)
(***************************************************************************)
\* C30: in the test-mode snapshot panel, after any sequence of Load, Add and Delete
\* clicks 0 <= lastSelected <= itemNum (0: none selected), itemNum is the number of
\* whole records of tests.bin once the file has been re-read, and Delete is offered
\* (lastSelected # 0) only when lastSelected refers to a record of the file.
C30_SelectedWithinItems ==
    /\ 0 <= lastSelected /\ lastSelected <= itemNum
    /\ ~reloadNeeded => itemNum = Len(testsFile)
    /\ lastSelected # 0 => lastSelected \in DOMAIN testsFile
    /\ testsLog.op = "Delete" => testsLog.selected \in DOMAIN testsLog.fileBefore

\* the last of two records was selected and deleted: the selection moves to record 1
C30_Witness ==
    /\ testsLog.op = "Delete" /\ testsLog.selected = 2 /\ Len(testsLog.fileBefore) = 2
    /\ lastSelected = 1 /\ itemNum = 1 /\ Len(testsFile) = 1 /\ reloadNeeded

====
